---- MODULE Spec2Model ----
(***************************************************************************)
(* A model of the ESP32 demo backend (src/backend/index.js):               *)
(*   - the fixed-window IP rate limiter (rateLimit and its sweep),         *)
(*   - the credential failure throttle (getCredentialThrottle,             *)
(*     recordCredentialFailure, resetCredentialFailures and its sweep),    *)
(*   - the POST /api/register and POST /api/login handlers,                *)
(*   - the process runner spawnCliAndStream,                               *)
(*   - the POST /api/flash workflow (probe, compile, upload).              *)
(* Time is in milliseconds, as Date.now() and setTimeout count it; the     *)
(* clock starts at 0 when the server starts.                               *)
(***************************************************************************)
EXTENDS Integers, Sequences, FiniteSets, TLC

VARIABLES
    now,                     \* Date.now(), ms since the server started
    ticks,                   \* how many times the clock has advanced
    rateLimitStore,          \* Map key -> {windowStart, count}
    rlLast,                  \* history: the last rateLimit call, <<>> if none
    rlSeen,                  \* history: per key, calls since the window began
    rlAllowed,               \* history: when the calls of the last WINDOW_MS for WatchedKey were allowed
    rlShadow,                \* history: the rate-limit store had no sweep ever run
    credentialThrottleStore, \* Map identity -> {failures, firstFailure}
    credLast,                \* history: the last failure recorded, <<>> if none
    cfLog,                   \* history: the last failures recorded for Watched
    resetPending,            \* history: per identity, the reset no failure has followed
    credShadow,              \* history: the throttle store had no sweep ever run
    mongoConnected,          \* whether the MongoDB connection is up
    mongoUsers,              \* the User collection: email -> user document
    inMemoryUsers,           \* the fallback Map: email -> user
    reqs,                    \* per request slot, the handler's position and locals
    obs,                     \* history: an observed run of wrong-password logins
    procs,                   \* per child process, the invocation that spawned it
    flash,                   \* per /api/flash request, the handler's position
    gate,                    \* per request slot, how far the request got through the middleware
    gateSeen                 \* history: the 401 responses authMiddleware has sent

clockVars == <<now, ticks>>

userVars == <<mongoConnected, mongoUsers, inMemoryUsers>>

authVars == <<userVars, reqs, obs>>

rateVars == <<rateLimitStore, rlLast, rlSeen, rlAllowed, rlShadow>>

credVars == <<credentialThrottleStore, credLast, cfLog, resetPending, credShadow>>

cliVars == <<procs, flash>>

gateVars == <<gate, gateSeen>>

vars == <<clockVars, rateVars, credVars, authVars, cliVars, gateVars>>

(***************************************************************************)
(* Map helpers: a JavaScript Map is a function whose domain is the set of  *)
(* keys that are present.                                                  *)
(***************************************************************************)
MapSet(m, k, v) == [x \in (DOMAIN m) \cup {k} |-> IF x = k THEN v ELSE m[x]]

MapDelete(m, k) == [x \in (DOMAIN m) \ {k} |-> m[x]]

EmptyMap == [x \in {} |-> 0]

\* Math.ceil(a / b) for b > 0 (\div rounds towards minus infinity)
CeilDiv(a, b) == -((-a) \div b)

Min(a, b) == IF a < b THEN a ELSE b

(***************************************************************************)
(* The clock.  MaxTicks bounds how often it advances in one behaviour.     *)
(***************************************************************************)
MaxTicks == 2

Tick(d) ==
    /\ ticks < MaxTicks
    /\ now' = now + d
    /\ ticks' = ticks + 1

(***************************************************************************)
(* Sliding-window counter: rateLimit(key), index.js 59-89.                 *)
(***************************************************************************)
RATE_LIMIT_WINDOW_MS == 900000

RATE_LIMIT_MAX_REQUESTS == 10

\* req.ip of the clients
Ips == {"ip1"}

\* the keys `login:${ip}` and `register:${ip}`
RateKey(route, ip) == <<route, ip>>

RateKeys == {RateKey(route, ip) : route \in {"login", "register"}, ip \in Ips}

\* the key whose allowed calls the history logs
WatchedKey == RateKey("login", "ip1")

\* the amounts by which the clock advances between rate-limited requests
RateSteps == {1, RATE_LIMIT_WINDOW_MS}

\* the test with a window of no length
RateExpiredAtOnce(record, t) == (t - record.windowStart) > 0

\* line 67: the test that makes rateLimit start a fresh window
RateExpired(record, t) == (t - record.windowStart) > RATE_LIMIT_WINDOW_MS

\* the denial with the retry-after rounded down
RateDeniedFloor(record, t) ==
    [allowed |-> FALSE,
     retryAfter |-> (RATE_LIMIT_WINDOW_MS - (t - record.windowStart)) \div 1000]

\* lines 72-75: the denial, with its retry-after in seconds
RateDenied(record, t) ==
    [allowed |-> FALSE,
     retryAfter |-> CeilDiv(RATE_LIMIT_WINDOW_MS - (t - record.windowStart), 1000)]

\* rateLimit whose denial restarts the window
rateLimitPostpone(store, key, t) ==
    IF key \notin DOMAIN store \/ RateExpired(store[key], t)
    THEN [store |-> MapSet(store, key, [windowStart |-> t, count |-> 1]),
          result |-> [allowed |-> TRUE, remaining |-> RATE_LIMIT_MAX_REQUESTS - 1]]
    ELSE IF store[key].count >= RATE_LIMIT_MAX_REQUESTS
    THEN [store |-> MapSet(store, key, [store[key] EXCEPT !.windowStart = t]),
          result |-> RateDenied(store[key], t)]
    ELSE [store |-> MapSet(store, key, [store[key] EXCEPT !.count = @ + 1]),
          result |-> [allowed |-> TRUE,
                      remaining |-> RATE_LIMIT_MAX_REQUESTS - (store[key].count + 1)]]

\* rateLimit whose increment is not written back to the store
rateLimitStale(store, key, t) ==
    IF key \notin DOMAIN store \/ RateExpired(store[key], t)
    THEN [store |-> MapSet(store, key, [windowStart |-> t, count |-> 1]),
          result |-> [allowed |-> TRUE, remaining |-> RATE_LIMIT_MAX_REQUESTS - 1]]
    ELSE IF store[key].count >= RATE_LIMIT_MAX_REQUESTS
    THEN [store |-> store, result |-> RateDenied(store[key], t)]
    ELSE [store |-> store,
          result |-> [allowed |-> TRUE,
                      remaining |-> RATE_LIMIT_MAX_REQUESTS - (store[key].count + 1)]]

\* rateLimit(key) at time t: the new store and the value returned
rateLimit(store, key, t) ==
    IF key \notin DOMAIN store \/ RateExpired(store[key], t)
    THEN [store |-> MapSet(store, key, [windowStart |-> t, count |-> 1]),
          result |-> [allowed |-> TRUE, remaining |-> RATE_LIMIT_MAX_REQUESTS - 1]]
    ELSE IF store[key].count >= RATE_LIMIT_MAX_REQUESTS
    THEN [store |-> store, result |-> RateDenied(store[key], t)]
    ELSE [store |-> MapSet(store, key, [store[key] EXCEPT !.count = @ + 1]),
          result |-> [allowed |-> TRUE,
                      remaining |-> RATE_LIMIT_MAX_REQUESTS - (store[key].count + 1)]]

\* a record the limiter still counts against at time t
RateLive(store, key, t) == key \in DOMAIN store /\ ~RateExpired(store[key], t)

\* history kept with every rateLimit call
RateHistory(key, r) ==
    /\ rlLast' = << [key |-> key, at |-> now,
                     hadRecord |-> key \in DOMAIN rateLimitStore,
                     shadowHad |-> key \in DOMAIN rlShadow.store,
                     pre |-> IF key \in DOMAIN rateLimitStore
                             THEN rateLimitStore[key]
                             ELSE [windowStart |-> now, count |-> 0],
                     post |-> r.store[key],
                     result |-> r.result] >>
    /\ rlSeen' = [rlSeen EXCEPT ![key] =
                     IF RateLive(rateLimitStore, key, now)
                     THEN Min(@ + 1, RATE_LIMIT_MAX_REQUESTS + 1)
                     ELSE 1]
    /\ rlAllowed' = IF key # WatchedKey THEN rlAllowed
                    ELSE LET recent == SelectSeq(rlAllowed,
                                          LAMBDA t : t >= now - RATE_LIMIT_WINDOW_MS)
                         IN IF r.result.allowed THEN Append(recent, now) ELSE recent
    /\ LET q == rateLimit(rlShadow.store, key, now) IN
       rlShadow' = [store |-> q.store,
                    agree |-> rlShadow.agree /\ q.result = r.result]

RateLimitCall(key) ==
    LET r == rateLimit(rateLimitStore, key, now) IN
    /\ rateLimitStore' = r.store
    /\ RateHistory(key, r)
    /\ UNCHANGED <<clockVars, credVars, authVars, cliVars, gateVars>>

\* a cleanup that also deletes records whose window is still open
RateSweepEarly ==
    /\ rateLimitStore' =
          [k \in {x \in DOMAIN rateLimitStore :
                     ~((now - rateLimitStore[x].windowStart) > 0)}
              |-> rateLimitStore[k]]
    /\ UNCHANGED <<clockVars, rlLast, rlSeen, rlAllowed, rlShadow>>

\* lines 82-89: the periodic cleanup
RateSweep ==
    /\ rateLimitStore' =
          [k \in {x \in DOMAIN rateLimitStore :
                     ~((now - rateLimitStore[x].windowStart) > RATE_LIMIT_WINDOW_MS)}
              |-> rateLimitStore[k]]
    /\ UNCHANGED <<clockVars, rlLast, rlSeen, rlAllowed, rlShadow>>

RateTick ==
    /\ \E d \in RateSteps : Tick(d)
    /\ UNCHANGED <<rateVars, credVars, authVars, cliVars, gateVars>>

(***************************************************************************)
(* Credential failure throttle, index.js 91-138.                           *)
(***************************************************************************)
CREDENTIAL_WINDOW_MS == 600000

CREDENTIAL_MAX_FAILURES == 5

\* normalized emails the login handler passes as keys
Identities == {"a@b.com", "c@d.com"}

\* the identity whose recorded failures the history logs
Watched == "a@b.com"

\* the amounts by which the clock advances between throttle calls
CredSteps == {1, CREDENTIAL_WINDOW_MS}

\* the failure counter is capped so that the state space is finite
MaxFailures == 6

\* how many of the latest recorded failures the history keeps
LogDepth == CREDENTIAL_MAX_FAILURES

\* lines 101 and 119: the record is older than the window
CredExpired(record, t) == (t - record.firstFailure) > CREDENTIAL_WINDOW_MS

\* getCredentialThrottle that blocks one failure late
getCredentialThrottleLate(store, key, t) ==
    IF key = "" \/ key \notin DOMAIN store
    THEN [store |-> store, result |-> [blocked |-> FALSE]]
    ELSE IF CredExpired(store[key], t)
    THEN [store |-> MapDelete(store, key), result |-> [blocked |-> FALSE]]
    ELSE IF store[key].failures > CREDENTIAL_MAX_FAILURES
    THEN [store |-> store,
          result |-> [blocked |-> TRUE,
                      retryAfter |-> CeilDiv(CREDENTIAL_WINDOW_MS
                                               - (t - store[key].firstFailure), 1000)]]
    ELSE [store |-> store, result |-> [blocked |-> FALSE]]

\* getCredentialThrottle that never blocks
getCredentialThrottleOpen(store, key, t) ==
    [store |-> store, result |-> [blocked |-> FALSE]]

\* lines 95-112: the new store and the value returned
getCredentialThrottle(store, key, t) ==
    IF key = "" THEN [store |-> store, result |-> [blocked |-> FALSE]]
    ELSE IF key \notin DOMAIN store
    THEN [store |-> store, result |-> [blocked |-> FALSE]]
    ELSE IF CredExpired(store[key], t)
    THEN [store |-> MapDelete(store, key), result |-> [blocked |-> FALSE]]
    ELSE IF store[key].failures >= CREDENTIAL_MAX_FAILURES
    THEN [store |-> store,
          result |-> [blocked |-> TRUE,
                      retryAfter |-> CeilDiv(CREDENTIAL_WINDOW_MS
                                               - (t - store[key].firstFailure), 1000)]]
    ELSE [store |-> store, result |-> [blocked |-> FALSE]]

\* recordCredentialFailure with the window test of line 119 off by one
recordCredentialFailureEarly(store, key, t) ==
    IF key = "" THEN store
    ELSE IF key \notin DOMAIN store \/ (t - store[key].firstFailure) >= CREDENTIAL_WINDOW_MS
    THEN MapSet(store, key, [failures |-> 1, firstFailure |-> t])
    ELSE MapSet(store, key, [store[key] EXCEPT !.failures = @ + 1])

\* lines 114-125: the new store
recordCredentialFailure(store, key, t) ==
    IF key = "" THEN store
    ELSE IF key \notin DOMAIN store \/ CredExpired(store[key], t)
    THEN MapSet(store, key, [failures |-> 1, firstFailure |-> t])
    ELSE MapSet(store, key, [store[key] EXCEPT !.failures = @ + 1])

\* resetCredentialFailures that lets the count decay instead of deleting it
resetCredentialFailuresDecay(store, key) ==
    IF key \in DOMAIN store
    THEN MapSet(store, key, [store[key] EXCEPT !.failures = @ - 1])
    ELSE store

\* lines 127-129: the new store
resetCredentialFailures(store, key) == MapDelete(store, key)

\* a record the throttle still counts against at time t
CredLive(store, key, t) == key \in DOMAIN store /\ ~CredExpired(store[key], t)

\* what getCredentialThrottle(key) would answer in this state
Blocked(key) == getCredentialThrottle(credentialThrottleStore, key, now).result.blocked

\* the last LogDepth entries of a log with one more entry
Push(log, e) ==
    LET l == Append(log, e) IN
    IF Len(l) > LogDepth THEN SubSeq(l, Len(l) - LogDepth + 1, Len(l)) ELSE l

GetCredentialThrottleCall(key) ==
    LET r == getCredentialThrottle(credentialThrottleStore, key, now) IN
    /\ credentialThrottleStore' = r.store
    /\ LET q == getCredentialThrottle(credShadow.store, key, now) IN
       credShadow' = [store |-> q.store,
                      agree |-> credShadow.agree /\ q.result = r.result]
    /\ UNCHANGED <<credLast, cfLog, resetPending>>

RecordCredentialFailureCall(key) ==
    /\ key \in DOMAIN credentialThrottleStore
          => credentialThrottleStore[key].failures < MaxFailures
    /\ credentialThrottleStore' = recordCredentialFailure(credentialThrottleStore, key, now)
    /\ credLast' = << [key |-> key, at |-> now,
                       afterReset |-> resetPending[key] # << >>,
                       post |-> credentialThrottleStore'[key]] >>
    /\ cfLog' = IF key = Watched
                THEN Push(cfLog, [at |-> now,
                                  fresh |-> ~CredLive(credentialThrottleStore, key, now)])
                ELSE cfLog
    /\ resetPending' = [resetPending EXCEPT ![key] = << >>]
    /\ credShadow' = [credShadow EXCEPT
                         !.store = recordCredentialFailure(@, key, now)]

ResetCredentialFailuresCall(key) ==
    /\ credentialThrottleStore' = resetCredentialFailures(credentialThrottleStore, key)
    /\ cfLog' = IF key = Watched THEN << >> ELSE cfLog
    /\ resetPending' = [resetPending EXCEPT ![key] =
                           << [wasBlocked |-> Blocked(key)] >>]
    /\ credShadow' = [credShadow EXCEPT !.store = resetCredentialFailures(@, key)]
    /\ UNCHANGED credLast

\* lines 131-138: the periodic cleanup
CredSweep ==
    /\ credentialThrottleStore' =
          [k \in {x \in DOMAIN credentialThrottleStore :
                     ~((now - credentialThrottleStore[x].firstFailure)
                           > CREDENTIAL_WINDOW_MS)}
              |-> credentialThrottleStore[k]]
    /\ UNCHANGED <<clockVars, credLast, cfLog, resetPending, credShadow>>

CredTick == \E d \in CredSteps : Tick(d)

(***************************************************************************)
(* POST /api/register and POST /api/login, index.js 577-694.  A handler    *)
(* runs without interruption up to its next await; each such stretch is    *)
(* one action.                                                             *)
(***************************************************************************)
ReqIds == {"r1", "r2"}

\* the slots that the one-request-at-a-time specification uses
SeqReqIds == {"r1"}

\* JSON values for body.email and body.password
Str(v) == [type |-> "string", v |-> v]

LoginEmailInputs == {Str("a@b.com"), Str(" A@B.com "), Str("nobody")}

LoginPasswordInputs == {Str("abcd1234"), Str("wrong123")}

RegisterEmailInputs == {Str("a@b.com"), Str(" A@B.com "), Str("c@d.com")}

RegisterPasswordInputs == {Str("abcd1234"), Str("short")}

\* JavaScript's !x for these values
Falsy(x) ==
    \/ x.type = "undefined"
    \/ x.type = "string" /\ x.v = ""
    \/ x.type = "number" /\ x.n = 0

\* email.trim().toLowerCase(), lines 584 and 643
normalizedEmail(v) == IF v = " A@B.com " THEN "a@b.com" ELSE v

\* lines 36-40
isValidEmail(v) == v \in {"a@b.com", "c@d.com"}

\* lines 48-54
isValidPassword(v) == v \in {"abcd1234", "wrong123"}

\* bcrypt.hash and bcrypt.compare
Hash(pw) == <<"bcrypt", pw>>

Compare(pw, hash) == hash = Hash(pw)

IdleReq == [pc |-> "idle"]

\* res.status(..).json(..) of slot r, after which the handler returns
Respond(r, response) ==
    reqs' = [reqs EXCEPT ![r] =
                [pc |-> "responded", response |-> response,
                 email |-> IF "email" \in DOMAIN reqs[r] THEN <<reqs[r].email>> ELSE << >>]]

\* the response has been sent and the slot serves the next request
Finish(r) ==
    /\ reqs[r].pc = "responded"
    /\ reqs' = [reqs EXCEPT ![r] = IdleReq]

\* the user store the handler reads, lines 669-673
ActiveUsers == IF mongoConnected THEN mongoUsers ELSE inMemoryUsers

WrongCredentials(email, pw) ==
    email \notin DOMAIN ActiveUsers \/ ~Compare(pw, ActiveUsers[email].password_hash)

ObsIdle == [n |-> 0]

\* The observer follows runs of up to six consecutive login attempts for
\* Watched: each attempt passes the IP limiter, carries wrong credentials,
\* meets no store error and starts within CREDENTIAL_WINDOW_MS of the first.
\* A run starts at the first such attempt after the previous run ended.
\* good: the first five answered 401 and the sixth 429, with a retry-after,
\* before any user lookup or password comparison.
ObsExpected(n, response) ==
    IF n <= CREDENTIAL_MAX_FAILURES
    THEN response.status = 401
    ELSE /\ response.status = 429
         /\ response.by = "credential"
         /\ response.retryAfter >= 0
         /\ ~response.lookedUp
         /\ ~response.compared

ObsStart(at, fresh, response) ==
    [n |-> 1, start |-> at, fresh |-> fresh, good |-> ObsExpected(1, response)]

Observe(email, at, fresh, qualifies, response) ==
    IF email # Watched THEN obs' = obs
    ELSE IF ~qualifies THEN obs' = ObsIdle
    ELSE IF obs.n = 0 \/ obs.n > CREDENTIAL_MAX_FAILURES
                      \/ at - obs.start > CREDENTIAL_WINDOW_MS
    THEN obs' = ObsStart(at, fresh, response)
    ELSE obs' = [obs EXCEPT !.n = @ + 1,
                            !.good = @ /\ ObsExpected(obs.n + 1, response)]

\* lines 675-678 and 681-684
LoginFail(r, email, startedAt, fresh, lookedUp, compared) ==
    LET response == [status |-> 401, error |-> "Invalid credentials",
                     lookedUp |-> lookedUp, compared |-> compared] IN
    /\ credentialThrottleStore' = recordCredentialFailure(credentialThrottleStore, email, now)
    /\ Respond(r, response)
    /\ Observe(email, startedAt, fresh, TRUE, response)

\* lines 635-678: up to the first await
LoginStart(r, email, password, ip) ==
    /\ reqs[r].pc = "idle"
    /\ UNCHANGED <<clockVars, rlLast, rlSeen, rlAllowed, rlShadow, credLast, cfLog, resetPending, credShadow, userVars, cliVars, gateVars>>
    /\ IF Falsy(email) \/ Falsy(password)
       THEN /\ Respond(r, [status |-> 400, error |-> "Missing email or password"])
            /\ UNCHANGED <<rateLimitStore, credentialThrottleStore, obs, cliVars, gateVars>>
       ELSE IF email.type # "string" \/ password.type # "string"
       THEN /\ Respond(r, [status |-> 400, error |-> "Bad input types"])
            /\ UNCHANGED <<rateLimitStore, credentialThrottleStore, obs, cliVars, gateVars>>
       ELSE IF ~isValidEmail(normalizedEmail(email.v))
       THEN /\ Respond(r, [status |-> 400, error |-> "Invalid email format"])
            /\ UNCHANGED <<rateLimitStore, credentialThrottleStore, obs, cliVars, gateVars>>
       ELSE
         LET ne == normalizedEmail(email.v)
             rl == rateLimit(rateLimitStore, RateKey("login", ip), now)
             ct == getCredentialThrottle(credentialThrottleStore, ne, now)
             fresh == ~CredLive(credentialThrottleStore, ne, now)
         IN
         /\ rateLimitStore' = rl.store
         /\ IF ~rl.result.allowed
            THEN LET response ==
                       [status |-> 429, by |-> "ip",
                        error |-> "Too many login attempts. Please try again later.",
                        retryAfter |-> rl.result.retryAfter,
                        lookedUp |-> FALSE, compared |-> FALSE] IN
                 /\ Respond(r, response)
                 /\ Observe(ne, now, fresh, FALSE, response)
                 /\ UNCHANGED credentialThrottleStore
            ELSE IF ct.result.blocked
            THEN LET response ==
                       [status |-> 429, by |-> "credential",
                        error |-> "Too many failed login attempts for this account. Please try again later.",
                        retryAfter |-> ct.result.retryAfter,
                        lookedUp |-> FALSE, compared |-> FALSE,
                        correct |-> ~WrongCredentials(ne, password.v)] IN
                 /\ credentialThrottleStore' = ct.store
                 /\ Respond(r, response)
                 /\ Observe(ne, now, fresh, WrongCredentials(ne, password.v), response)
            ELSE IF mongoConnected
            THEN /\ credentialThrottleStore' = ct.store
                 /\ reqs' = [reqs EXCEPT ![r] =
                        [pc |-> "findOne", email |-> ne, password |-> password.v,
                         startedAt |-> now, fresh |-> fresh]]
                 /\ UNCHANGED obs
            ELSE IF ne \notin DOMAIN inMemoryUsers
            THEN LET response ==
                       [status |-> 401, error |-> "Invalid credentials",
                        lookedUp |-> TRUE, compared |-> FALSE] IN
                 /\ credentialThrottleStore' = recordCredentialFailure(ct.store, ne, now)
                 /\ Respond(r, response)
                 /\ Observe(ne, now, fresh, TRUE, response)
            ELSE /\ credentialThrottleStore' = ct.store
                 /\ reqs' = [reqs EXCEPT ![r] =
                        [pc |-> "compare", email |-> ne, password |-> password.v,
                         startedAt |-> now, fresh |-> fresh,
                         user |-> inMemoryUsers[ne]]]
                 /\ UNCHANGED obs

\* line 670: await User.findOne settles
LoginFindOne(r, throws) ==
    /\ reqs[r].pc = "findOne"
    /\ UNCHANGED <<clockVars, rateVars, credLast, cfLog, resetPending, credShadow, userVars, cliVars, gateVars>>
    /\ IF throws
       THEN LET response == [status |-> 500, error |-> "DB error",
                             lookedUp |-> TRUE, compared |-> FALSE] IN
            /\ Respond(r, response)
            /\ Observe(reqs[r].email, reqs[r].startedAt, reqs[r].fresh, FALSE, response)
            /\ UNCHANGED credentialThrottleStore
       ELSE IF reqs[r].email \notin DOMAIN mongoUsers
       THEN LoginFail(r, reqs[r].email, reqs[r].startedAt, reqs[r].fresh, TRUE, FALSE)
       ELSE /\ reqs' = [reqs EXCEPT ![r] =
                   [pc |-> "compare", email |-> reqs[r].email,
                    password |-> reqs[r].password, startedAt |-> reqs[r].startedAt,
                    fresh |-> reqs[r].fresh, user |-> mongoUsers[reqs[r].email]]]
            /\ UNCHANGED <<obs, credentialThrottleStore>>

\* lines 680-689: await bcrypt.compare settles
LoginCompare(r) ==
    /\ reqs[r].pc = "compare"
    /\ UNCHANGED <<clockVars, rateVars, credLast, cfLog, resetPending, credShadow, userVars, cliVars, gateVars>>
    /\ IF ~Compare(reqs[r].password, reqs[r].user.password_hash)
       THEN LoginFail(r, reqs[r].email, reqs[r].startedAt, reqs[r].fresh, TRUE, TRUE)
       ELSE LET response ==
                  [status |-> 200,
                   token |-> [id |-> reqs[r].user.id, email |-> reqs[r].user.email],
                   lookedUp |-> TRUE, compared |-> TRUE] IN
            /\ credentialThrottleStore' =
                  resetCredentialFailures(credentialThrottleStore, reqs[r].email)
            /\ Respond(r, response)
            /\ Observe(reqs[r].email, reqs[r].startedAt, reqs[r].fresh, FALSE, response)

\* the handler that counts the request against the IP before it has checked
\* the email and the password
RegisterStartLimitFirst(r, email, password, ip) ==
    /\ reqs[r].pc = "idle"
    /\ UNCHANGED <<clockVars, rlLast, rlSeen, rlAllowed, rlShadow, credVars, userVars, obs, cliVars, gateVars>>
    /\ IF Falsy(email) \/ Falsy(password)
       THEN /\ Respond(r, [status |-> 400, error |-> "Missing email or password"])
            /\ UNCHANGED rateLimitStore
       ELSE IF email.type # "string" \/ password.type # "string"
       THEN /\ Respond(r, [status |-> 400, error |-> "Bad input types"])
            /\ UNCHANGED rateLimitStore
       ELSE
         LET rl == rateLimit(rateLimitStore, RateKey("register", ip), now) IN
         /\ rateLimitStore' = rl.store
         /\ IF ~rl.result.allowed
            THEN Respond(r, [status |-> 429,
                             error |-> "Too many registration attempts. Please try again later.",
                             retryAfter |-> rl.result.retryAfter])
            ELSE IF ~isValidEmail(normalizedEmail(email.v))
            THEN Respond(r, [status |-> 400, error |-> "Invalid email format"])
            ELSE IF ~isValidPassword(password.v)
            THEN Respond(r, [status |-> 400, error |-> "Password must be at least 8 characters and contain at least one letter and one number"])
            ELSE /\ reqs' = [reqs EXCEPT ![r] =
                        [pc |-> "hash", email |-> normalizedEmail(email.v),
                         password |-> password.v]]

\* lines 577-609: up to await bcrypt.hash
RegisterStart(r, email, password, ip) ==
    /\ reqs[r].pc = "idle"
    /\ UNCHANGED <<clockVars, rlLast, rlSeen, rlAllowed, rlShadow, credVars, userVars, obs, cliVars, gateVars>>
    /\ IF Falsy(email) \/ Falsy(password)
       THEN /\ Respond(r, [status |-> 400, error |-> "Missing email or password"])
            /\ UNCHANGED rateLimitStore
       ELSE IF email.type # "string" \/ password.type # "string"
       THEN /\ Respond(r, [status |-> 400, error |-> "Bad input types"])
            /\ UNCHANGED rateLimitStore
       ELSE IF ~isValidEmail(normalizedEmail(email.v))
       THEN /\ Respond(r, [status |-> 400, error |-> "Invalid email format"])
            /\ UNCHANGED rateLimitStore
       ELSE IF ~isValidPassword(password.v)
       THEN /\ Respond(r, [status |-> 400, error |-> "Password must be at least 8 characters and contain at least one letter and one number"])
            /\ UNCHANGED rateLimitStore
       ELSE
         LET rl == rateLimit(rateLimitStore, RateKey("register", ip), now) IN
         /\ rateLimitStore' = rl.store
         /\ IF ~rl.result.allowed
            THEN Respond(r, [status |-> 429,
                             error |-> "Too many registration attempts. Please try again later.",
                             retryAfter |-> rl.result.retryAfter])
            ELSE /\ reqs' = [reqs EXCEPT ![r] =
                        [pc |-> "hash", email |-> normalizedEmail(email.v),
                         password |-> password.v]]

\* lines 609-624: await bcrypt.hash settles
RegisterHashed(r) ==
    /\ reqs[r].pc = "hash"
    /\ UNCHANGED <<clockVars, rateVars, credVars, mongoConnected, mongoUsers, obs, cliVars, gateVars>>
    /\ IF mongoConnected
       THEN /\ reqs' = [reqs EXCEPT ![r] =
                   [pc |-> "save", email |-> reqs[r].email,
                    password_hash |-> Hash(reqs[r].password)]]
            /\ UNCHANGED inMemoryUsers
       ELSE IF reqs[r].email \in DOMAIN inMemoryUsers
       THEN /\ Respond(r, [status |-> 409, error |-> "User already exists"])
            /\ UNCHANGED inMemoryUsers
       ELSE LET id == <<"user_", now>> IN
            /\ inMemoryUsers' =
                  MapSet(inMemoryUsers, reqs[r].email,
                         [id |-> id, email |-> reqs[r].email,
                          password_hash |-> Hash(reqs[r].password)])
            /\ Respond(r, [status |-> 200, id |-> id,
                           token |-> [id |-> id, email |-> reqs[r].email]])

\* lines 613-615 and 625-631: await user.save() settles; the unique index on
\* email rejects a duplicate with code 11000
RegisterSave(r, throws) ==
    /\ reqs[r].pc = "save"
    /\ UNCHANGED <<clockVars, rateVars, credVars, mongoConnected, inMemoryUsers, obs, cliVars, gateVars>>
    /\ IF throws
       THEN /\ Respond(r, [status |-> 500, error |-> "DB error"])
            /\ UNCHANGED mongoUsers
       ELSE IF reqs[r].email \in DOMAIN mongoUsers
       THEN /\ Respond(r, [status |-> 409, error |-> "User already exists"])
            /\ UNCHANGED mongoUsers
       ELSE LET id == <<"oid", Cardinality(DOMAIN mongoUsers)>> IN
            /\ mongoUsers' =
                  MapSet(mongoUsers, reqs[r].email,
                         [id |-> id, email |-> reqs[r].email,
                          password_hash |-> reqs[r].password_hash])
            /\ Respond(r, [status |-> 200, id |-> id,
                           token |-> [id |-> id, email |-> reqs[r].email]])

\* lines 708-713: the in-memory users whose id is the id of the token; the
\* loop of GET /api/me answers with the first of them in insertion order
meCandidates(id) ==
    {inMemoryUsers[e] : e \in {x \in DOMAIN inMemoryUsers : inMemoryUsers[x].id = id}}

\* lines 352-371: the connection comes up or goes down
MongoConnect ==
    /\ ~mongoConnected
    /\ mongoConnected' = TRUE
    /\ UNCHANGED <<clockVars, rateVars, credVars, mongoUsers, inMemoryUsers,
                   reqs, obs, cliVars, gateVars>>

MongoDisconnect ==
    /\ mongoConnected
    /\ mongoConnected' = FALSE
    /\ UNCHANGED <<clockVars, rateVars, credVars, mongoUsers, inMemoryUsers,
                   reqs, obs, cliVars, gateVars>>

\* the amounts by which the clock advances between and during auth requests
AuthSteps == {1, CREDENTIAL_WINDOW_MS}

AuthTick ==
    /\ \E d \in AuthSteps : Tick(d)
    /\ UNCHANGED <<rateVars, credVars, authVars, cliVars, gateVars>>

AllIdle == \A r \in ReqIds : reqs[r].pc = "idle"

(***************************************************************************)
(* The process runner spawnCliAndStream, index.js 525-574.  A child is    *)
(* "running", "exited" (ended, its 'close' event not yet delivered),       *)
(* "failed" (it could not be spawned, its 'error' event not yet            *)
(* delivered), "errored" ('error' delivered, 'close' still to come) or     *)
(* "closed".  Timers fire at the instant they are due.                     *)
(***************************************************************************)
CLI_MAX_OUTPUT_BYTES == 4000

CLI_MAX_EXECUTION_MS == 120000

\* line 551: the delay between SIGTERM and SIGKILL
SIGKILL_DELAY_MS == 3000

\* the arduino-cli subcommands
Args == {"version", "compile", "upload"}

\* the /api/flash requests
FlashIds == {"f1", "f2"}

\* the slot that the one-request specifications use
SeqFlashIds == {"f1"}

\* the owner of an invocation made outside any request
Direct == "direct"

\* one child per owner and subcommand
PIds == {<<Direct, "compile">>} \cup {<<r, a>> : r \in FlashIds, a \in Args}

NoProc == [child |-> "none"]

\* an option value: << >> is undefined, <<n>> is the number n
NoOptions == [timeoutMs |-> << >>, maxBuffer |-> << >>]

OptionInputs == {NoOptions,
                 [timeoutMs |-> <<0>>, maxBuffer |-> <<0>>],
                 [timeoutMs |-> <<5000>>, maxBuffer |-> <<2>>],
                 [timeoutMs |-> <<1>>, maxBuffer |-> << >>]}

\* lines 527-532: Number.isFinite(v) && v > 0 ? v : fallback
OptionOr(v, fallback) == IF v # << >> /\ v[1] > 0 THEN v[1] ELSE fallback

\* the chunks a child writes, as bytes: "a", "e-acute" in UTF-8, and its two
\* bytes written separately
ChunkInputs == {<<97>>, <<195, 169>>, <<195>>, <<169>>}

\* how many chunks one child writes at most
MaxChunks == 3

\* the exit codes of a child that ends on its own
ExitCodes == {0, 1}

\* line 537, chunk.toString(): UTF-8 decoding of a buffer to UTF-16 code
\* units, for buffers of one- and two-byte sequences; a byte that is not part
\* of a complete sequence decodes to U+FFFD
RECURSIVE Utf8Decode(_)
Utf8Decode(bytes) ==
    IF bytes = << >> THEN << >>
    ELSE IF bytes[1] < 128
    THEN <<bytes[1]>> \o Utf8Decode(Tail(bytes))
    ELSE IF /\ bytes[1] >= 194 /\ bytes[1] <= 223
            /\ Len(bytes) >= 2 /\ bytes[2] >= 128 /\ bytes[2] <= 191
    THEN <<(bytes[1] - 192) * 64 + (bytes[2] - 128)>> \o Utf8Decode(Tail(Tail(bytes)))
    ELSE <<65533>> \o Utf8Decode(Tail(bytes))

\* the last n elements of a sequence
Suffix(s, n) == SubSeq(s, Len(s) - n + 1, Len(s))

\* lines 536-541
appendChunk(output, chunk, maxBuffer) ==
    LET o == output \o Utf8Decode(chunk) IN
    IF Len(o) > maxBuffer THEN Suffix(o, maxBuffer) ELSE o

\* lines 526-534 and 546-553: the invocation right after spawn() returned
SpawnCli(options, fails, t) ==
    [runner |-> TRUE,
     spawned |-> ~fails,
     child |-> IF fails THEN "failed" ELSE "running",
     spawnedAt |-> t,
     timeoutMs |-> OptionOr(options.timeoutMs, CLI_MAX_EXECUTION_MS),
     maxBuffer |-> OptionOr(options.maxBuffer, CLI_MAX_OUTPUT_BYTES),
     output |-> << >>,
     timedOut |-> FALSE,
     killTimer |-> "pending",
     sigkillTimer |-> << >>,
     exit |-> IF fails THEN <<[code |-> <<-2>>, signal |-> << >>]>> ELSE << >>,
     settled |-> << >>,
     received |-> << >>,
     chunks |-> 0,
     signals |-> << >>,
     closed |-> << >>]

\* lines 495-499: the version probe right after spawn() returned
SpawnProbe(fails, t) ==
    [runner |-> FALSE,
     spawned |-> ~fails,
     child |-> IF fails THEN "failed" ELSE "running",
     spawnedAt |-> t,
     exit |-> IF fails THEN <<[code |-> <<-2>>, signal |-> << >>]>> ELSE << >>,
     settled |-> << >>]

\* a promise that every call of resolve or reject settles anew
SettleAgain(rec, result) == [rec EXCEPT !.settled = <<result>>]

\* resolve and reject: only the first call settles the promise
Settle(rec, result) ==
    IF rec.settled = << >> THEN [rec EXCEPT !.settled = <<result>>] ELSE rec

\* child.kill(signal): the signal is sent only while the child has not ended
Kill(rec, signal, t) ==
    [rec EXCEPT !.signals = Append(@, [signal |-> signal, at |-> t,
                                       sent |-> rec.child = "running"])]

\* clearTimeout(killTimer)
ClearKillTimer(rec) ==
    IF rec.killTimer = "pending" THEN [rec EXCEPT !.killTimer = "cleared"] ELSE rec

\* the kill timer callback that forgets to mark the invocation as timed out
onKillTimerUnmarked(rec, t) ==
    [Kill(rec, "SIGTERM", t) EXCEPT
        !.killTimer = "fired",
        !.sigkillTimer = <<[due |-> t + SIGKILL_DELAY_MS, fired |-> FALSE]>>]

\* lines 546-550: the kill timer callback
onKillTimer(rec, t) ==
    [Kill(rec, "SIGTERM", t) EXCEPT
        !.timedOut = TRUE,
        !.killTimer = "fired",
        !.sigkillTimer = <<[due |-> t + SIGKILL_DELAY_MS, fired |-> FALSE]>>]

\* line 551: the nested timer's callback; SIGKILL ends a child that still runs
onSigkillTimer(rec, t) ==
    LET k == Kill(rec, "SIGKILL", t) IN
    [k EXCEPT !.sigkillTimer = <<[due |-> rec.sigkillTimer[1].due, fired |-> TRUE]>>,
              !.child = IF rec.child = "running" THEN "exited" ELSE @,
              !.exit = IF rec.child = "running"
                       THEN <<[code |-> << >>, signal |-> <<"SIGKILL">>]>> ELSE @]

\* the 'error' handler without the cause
onErrorNoCause(rec, err) ==
    Settle([ClearKillTimer(rec) EXCEPT !.child = "errored"],
           [ok |-> FALSE, message |-> <<"Failed to run arduino-cli">>,
            cliOutput |-> rec.output])

\* lines 555-561: the 'error' handler
onError(rec, err) ==
    Settle([ClearKillTimer(rec) EXCEPT !.child = "errored"],
           [ok |-> FALSE, message |-> <<"Failed to run arduino-cli">>,
            cause |-> err, cliOutput |-> rec.output])

\* a 'close' handler that leaves the kill timer alone
onCloseKeepsTimer(rec, code, t) ==
    LET closed == [rec EXCEPT
                       !.child = "closed",
                       !.closed = <<[at |-> t, code |-> code,
                                     timedOut |-> rec.timedOut,
                                     output |-> rec.output]>>]
    IN
    IF ~rec.timedOut /\ code = <<0>>
    THEN Settle(closed, [ok |-> TRUE, value |-> rec.output])
    ELSE Settle(closed,
                [ok |-> FALSE,
                 message |-> IF rec.timedOut THEN <<"arduino-cli timed out">>
                             ELSE <<"arduino-cli exited with code", code>>,
                 timedOut |-> rec.timedOut,
                 cliOutput |-> rec.output])

\* lines 563-572: the 'close' handler; code is <<n>> for the number n and
\* << >> for null; the message keeps the interpolated code apart from the text
onClose(rec, code, t) ==
    LET cleared == [ClearKillTimer(rec) EXCEPT
                       !.child = "closed",
                       !.closed = <<[at |-> t, code |-> code,
                                     timedOut |-> rec.timedOut,
                                     output |-> rec.output]>>]
    IN
    IF ~rec.timedOut /\ code = <<0>>
    THEN Settle(cleared, [ok |-> TRUE, value |-> rec.output])
    ELSE Settle(cleared,
                [ok |-> FALSE,
                 message |-> IF rec.timedOut THEN <<"arduino-cli timed out">>
                             ELSE <<"arduino-cli exited with code", code>>,
                 timedOut |-> rec.timedOut,
                 cliOutput |-> rec.output])

\* line 497: cmd.on('error', reject)
onProbeError(rec, err) ==
    Settle([rec EXCEPT !.child = "errored"], [ok |-> FALSE, cause |-> err])

\* a 'close' handler of the probe that resolves whatever the exit code
onProbeCloseAnyCode(rec, code) ==
    Settle([rec EXCEPT !.child = "closed"], [ok |-> TRUE])

\* line 498: the probe's 'close' handler
onProbeClose(rec, code) ==
    IF code = <<0>>
    THEN Settle([rec EXCEPT !.child = "closed"], [ok |-> TRUE])
    ELSE Settle([rec EXCEPT !.child = "closed"],
                [ok |-> FALSE, message |-> <<"arduino-cli not found">>])

\* the invocations made through spawnCliAndStream
Cli(p) == procs[p].child # "none" /\ procs[p].runner

\* the instants at which a pending timer of p is due
Deadlines(p) ==
    IF ~Cli(p) THEN {}
    ELSE (IF procs[p].killTimer = "pending"
          THEN {procs[p].spawnedAt + procs[p].timeoutMs} ELSE {})
         \cup {procs[p].sigkillTimer[i].due :
                  i \in {j \in 1..Len(procs[p].sigkillTimer) :
                            ~procs[p].sigkillTimer[j].fired}}

AllDeadlines == UNION {Deadlines(p) : p \in PIds}

(***************************************************************************)
(* POST /api/flash, index.js 459-523, for a request that passed the auth   *)
(* gate.  The part of the handler after an await runs as soon as the       *)
(* awaited promise settles, so it belongs to the action that settles it.   *)
(***************************************************************************)
Undefined == [type |-> "undefined"]

\* a JavaScript string, as the sequence of its parts
Text(tokens) == [type |-> "string", v |-> tokens]

\* a JavaScript number
Num(n) == [type |-> "number", n |-> n]

\* JavaScript's !x for undefined, strings and numbers; port and fqbn are
\* sequences of characters
FalsyValue(x) ==
    \/ x.type = "undefined"
    \/ x.type = "string" /\ x.v = << >>
    \/ x.type = "number" /\ x.n = 0

\* the string of n characters c
Repeat(c, n) == [i \in 1..n |-> c]

PortInputs == {Undefined, Text(<<"/", "d", "e", "v", "/", "t", "t", "y", "U", "S", "B", "0">>),
               Text(<<"C", "O", "M", "3", ";", " ", "r", "e", "b", "o", "o", "t">>)}

FqbnInputs == {Undefined, Text(<<"e", "s", "p", "3", "2", ":", "e", "s", "p", "3", "2", ":", "e", "s", "p", "3", "2">>),
               Text(<<"a", " ", "b">>)}

\* the characters that \w matches
WordChars ==
    {"a", "b", "c", "d", "e", "f", "g", "h", "i", "j", "k", "l", "m", "n",
     "o", "p", "q", "r", "s", "t", "u", "v", "w", "x", "y", "z", "A", "B",
     "C", "D", "E", "F", "G", "H", "I", "J", "K", "L", "M", "N", "O", "P",
     "Q", "R", "S", "T", "U", "V", "W", "X", "Y", "Z", "0", "1", "2", "3",
     "4", "5", "6", "7", "8", "9", "_"}

\* line 152: /^[\w\-\/.:]+$/
SERIAL_PORT_PATTERN(v) ==
    /\ Len(v) >= 1
    /\ \A i \in 1..Len(v) : v[i] \in WordChars \cup {"-", "/", ".", ":"}

\* line 153: /^[\w:.\-]{3,120}$/
FQBN_PATTERN(v) ==
    /\ Len(v) >= 3
    /\ Len(v) <= 120
    /\ \A i \in 1..Len(v) : v[i] \in WordChars \cup {":", ".", "-"}

\* the test of the length that ignores it
isValidSerialPortAnyLength(port) ==
    port.type = "string" /\ SERIAL_PORT_PATTERN(port.v)

\* lines 164-166
isValidSerialPort(port) ==
    port.type = "string" /\ Len(port.v) <= 200 /\ SERIAL_PORT_PATTERN(port.v)

\* lines 168-171
isValidFqbn(fqbn) ==
    \/ FalsyValue(fqbn)
    \/ fqbn.type = "string" /\ Len(fqbn.v) <= 120 /\ FQBN_PATTERN(fqbn.v)

\* A sketchPath string is a sequence of tokens: "/", "\\", " " and names.  A
\* name is a run of characters without a separator or a space; no two names
\* are adjacent.

SketchInputs ==
    {Undefined,
     Text(<<" ">>),
     Text(<<"sketches", "/", "blink.ino">>),
     Text(<<"sketches", "/", "/", ".", "/", "blink.ino">>),
     Text(<<" ", "sketches", "\\", "blink.ino", " ">>),
     Text(<<"sketches", "/", "..", "/", "sketches", "/", "blink.ino">>),
     Text(<<"/", "app", "/", "sketches", "/", "blink.ino">>),
     Text(<<"sketches", "/", "..", "/", "..", "/", "etc", "/", "passwd.ino">>),
     Text(<<"/", "etc", "/", "passwd.ino">>),
     Text(<<"/", "app-evil", "/", "x.ino">>),
     Text(<<"sketches", "/", "my..sketch.ino">>),
     Text(<<"sketches", "/", "notes.txt">>),
     Text(<<"sketches", "/", "missing.ino">>),
     Text(<<"sketches", "/", "dir.ino">>)}

\* !sketchPath
FalsyText(x) == x.type = "undefined" \/ x.v = << >>

\* line 155: PROJECT_ROOT, the parent of the backend directory
PROJECT_ROOT == <<"/", "app">>

\* the names in which two dots follow one another
DotDotNames == {"..", "my..sketch.ino"}

\* String.prototype.startsWith on names
NameStartsWith(name, prefix) ==
    name = prefix \/ (prefix = "app" /\ name = "app-evil")

\* path.extname(name).toLowerCase()
extname(name) ==
    IF name \in {"blink.ino", "passwd.ino", "x.ino", "my..sketch.ino",
                 "missing.ino", "dir.ino"} THEN ".ino"
    ELSE IF name = "notes.txt" THEN ".txt"
    ELSE ""

ALLOWED_SKETCH_EXTENSIONS == {".ino", ".bin"}

\* line 145: inputPath.replace(/\\/g, '/')
ReplaceBackslashes(s) == [i \in 1..Len(s) |-> IF s[i] = "\\" THEN "/" ELSE s[i]]

\* line 145: String.prototype.trim
RECURSIVE Trim(_)
Trim(s) ==
    IF s = << >> THEN s
    ELSE IF Head(s) = " " THEN Trim(Tail(s))
    ELSE IF s[Len(s)] = " " THEN Trim(SubSeq(s, 1, Len(s) - 1))
    ELSE s

\* s.split('/'): the segments, each a sequence of tokens
RECURSIVE Split(_)
Split(s) ==
    IF \A i \in 1..Len(s) : s[i] # "/" THEN <<s>>
    ELSE LET k == CHOOSE i \in 1..Len(s) :
                     s[i] = "/" /\ \A j \in 1..(i - 1) : s[j] # "/"
         IN <<SubSeq(s, 1, k - 1)>> \o Split(SubSeq(s, k + 1, Len(s)))

\* segs.join('/')
RECURSIVE Join(_)
Join(segs) ==
    IF segs = << >> THEN << >>
    ELSE IF Len(segs) = 1 THEN segs[1]
    ELSE segs[1] \o <<"/">> \o Join(Tail(segs))

\* normalizeString of Node's path module: the segments of a path without
\* its empty and "." segments and with its ".." segments resolved
RECURSIVE NormalizeSegments(_, _, _)
NormalizeSegments(segs, res, allowAboveRoot) ==
    IF segs = << >> THEN res
    ELSE LET seg == Head(segs) rest == Tail(segs) IN
         IF seg = << >> \/ seg = <<".">>
         THEN NormalizeSegments(rest, res, allowAboveRoot)
         ELSE IF seg = <<"..">>
         THEN IF res # << >> /\ res[Len(res)] # <<"..">>
              THEN NormalizeSegments(rest, SubSeq(res, 1, Len(res) - 1), allowAboveRoot)
              ELSE IF allowAboveRoot
              THEN NormalizeSegments(rest, Append(res, seg), allowAboveRoot)
              ELSE NormalizeSegments(rest, res, allowAboveRoot)
         ELSE NormalizeSegments(rest, Append(res, seg), allowAboveRoot)

\* line 147: path.posix.normalize
posixNormalize(s) ==
    IF s = << >> THEN <<".">>
    ELSE LET isAbsolute == Head(s) = "/"
             trailing == s[Len(s)] = "/"
             body == Join(NormalizeSegments(Split(s), << >>, ~isAbsolute))
             path == IF body = << >> /\ ~isAbsolute THEN <<".">>
                     ELSE IF body # << >> /\ trailing THEN Append(body, "/")
                     ELSE body
         IN IF isAbsolute THEN <<"/">> \o path ELSE path

\* String.prototype.includes('..')
IncludesDotDot(s) == \E i \in 1..Len(s) : s[i] \in DotDotNames

\* lines 143-150: << >> is null
sanitizePath(inputPath) ==
    IF inputPath.type # "string" THEN << >>
    ELSE LET trimmed == Trim(ReplaceBackslashes(inputPath.v)) IN
         IF trimmed = << >> THEN << >>
         ELSE IF IncludesDotDot(posixNormalize(trimmed)) THEN << >>
         ELSE <<posixNormalize(trimmed)>>

\* line 476: path.resolve(PROJECT_ROOT, p), an absolute path without "." and
\* ".." segments and without a trailing separator
pathResolve(root, p) ==
    LET full == IF p # << >> /\ Head(p) = "/" THEN p ELSE root \o <<"/">> \o p IN
    <<"/">> \o Join(NormalizeSegments(Split(full), << >>, FALSE))

\* String.prototype.startsWith
StartsWith(s, prefix) ==
    /\ Len(s) >= Len(prefix)
    /\ \A i \in 1..(Len(prefix) - 1) : s[i] = prefix[i]
    /\ NameStartsWith(s[Len(prefix)], prefix[Len(prefix)])

\* line 477: resolvedSketch.startsWith(PROJECT_ROOT)
InsideProjectRoot(resolved) == StartsWith(resolved, PROJECT_ROOT)

\* lines 481-482
AllowedExtension(resolved) ==
    extname(resolved[Len(resolved)]) \in ALLOWED_SKETCH_EXTENSIONS

\* lines 486-493: what fs.statSync finds on the disk
Files == {<<"/", "app", "/", "sketches", "/", "blink.ino">>,
          <<"/", "app", "/", "sketches", "/", "my..sketch.ino">>,
          <<"/", "app", "/", "sketches", "/", "notes.txt">>,
          <<"/", "app-evil", "/", "x.ino">>,
          <<"/", "etc", "/", "passwd.ino">>}

Directories == {<<"/", "app">>, <<"/", "app", "/", "sketches">>,
                <<"/", "app", "/", "sketches", "/", "dir.ino">>}

\* res.status(..).json(..) of the request with this body; responses counts
\* the responses sent to the request, spawns lists the commands spawned for it
FlashRespondTo(r, body, response) ==
    flash' = [flash EXCEPT ![r] =
                 [pc |-> "responded", response |-> response, body |-> body,
                  spawns |-> flash[r].spawns,
                  responses |-> IF flash[r].pc = "responded"
                                THEN flash[r].responses + 1 ELSE 1]]

FlashRespond(r, response) == FlashRespondTo(r, flash[r].body, response)

\* lines 505-506: the arguments of the compile command
compileArgs(r) ==
    <<"compile", flash[r].sketch>>
        \o (IF FalsyValue(flash[r].fqbn) THEN << >> ELSE <<"--fqbn", flash[r].fqbn.v>>)

\* lines 512-513: the arguments of the upload command
uploadArgs(r) ==
    <<"upload", flash[r].sketch, "--port", flash[r].port>>
        \o (IF FalsyValue(flash[r].fqbn) THEN << >> ELSE <<"--fqbn", flash[r].fqbn.v>>)

\* a catch block that answers with what the process wrote when it wrote
\* something
FlashFailedLeaky(r, err) ==
    FlashRespond(r, [status |-> 500,
                     error |-> IF "cliOutput" \in DOMAIN err /\ err.cliOutput # << >>
                               THEN "captured output of arduino-cli"
                               ELSE IF "timedOut" \in DOMAIN err /\ err.timedOut
                               THEN "Flash operation timed out. Please verify the board connection."
                               ELSE "Failed to compile or upload sketch"])

\* a catch block that answers with the generic message whatever the error
FlashFailedGeneric(r, err) ==
    FlashRespond(r, [status |-> 500, error |-> "Failed to compile or upload sketch"])

\* lines 516-521: the catch block of the compile and upload phases
FlashFailed(r, err) ==
    FlashRespond(r, [status |-> 500,
                     error |-> IF "timedOut" \in DOMAIN err /\ err.timedOut
                               THEN "Flash operation timed out. Please verify the board connection."
                               ELSE "Failed to compile or upload sketch"])

\* the handler that goes on to upload whatever became of compile
FlashAfterCompileAnyway(r, ps, result, fails) ==
    /\ procs' = [ps EXCEPT ![<<r, "upload">>] = SpawnCli(NoOptions, fails, now)]
    /\ flash' = [flash EXCEPT ![r].pc = "upload", ![r].args = uploadArgs(r),
                                  ![r].spawns = Append(@, "upload")]

\* the handler that holds its upload back while another request uploads to
\* the same port
FlashAfterCompileQueued(r, ps, result, fails) ==
    IF result.ok
    THEN /\ procs' = IF \E o \in FlashIds \ {r} :
                           /\ flash[o].pc = "upload"
                           /\ flash[o].port = flash[r].port
                           /\ ps[<<o, "upload">>].child = "running"
                     THEN ps
                     ELSE [ps EXCEPT ![<<r, "upload">>] = SpawnCli(NoOptions, fails, now)]
         /\ flash' = [flash EXCEPT ![r].pc = "upload", ![r].args = uploadArgs(r),
                                  ![r].spawns = Append(@, "upload")]
    ELSE /\ procs' = ps
         /\ FlashFailed(r, result)

\* the handler that runs compile again when it has failed
FlashAfterCompileRetry(r, ps, result, fails) ==
    IF result.ok
    THEN /\ procs' = [ps EXCEPT ![<<r, "upload">>] = SpawnCli(NoOptions, fails, now)]
         /\ flash' = [flash EXCEPT ![r].pc = "upload", ![r].args = uploadArgs(r),
                                  ![r].spawns = Append(@, "upload")]
    ELSE /\ procs' = [ps EXCEPT ![<<r, "compile">>] = SpawnCli(NoOptions, fails, now)]
         /\ flash' = [flash EXCEPT ![r].spawns = Append(@, "compile")]

\* lines 511-514 and 516: after await spawnCliAndStream(compileArgs)
FlashAfterCompile(r, ps, result, fails) ==
    IF result.ok
    THEN /\ procs' = [ps EXCEPT ![<<r, "upload">>] = SpawnCli(NoOptions, fails, now)]
         /\ flash' = [flash EXCEPT ![r].pc = "upload", ![r].args = uploadArgs(r),
                                  ![r].spawns = Append(@, "upload")]
    ELSE /\ procs' = ps
         /\ FlashFailed(r, result)

\* lines 500-510: after the probe's promise
FlashAfterProbe(r, ps, result, fails) ==
    IF result.ok
    THEN /\ procs' = [ps EXCEPT ![<<r, "compile">>] = SpawnCli(NoOptions, fails, now)]
         /\ flash' = [flash EXCEPT ![r].pc = "compile", ![r].args = compileArgs(r),
                                  ![r].spawns = Append(@, "compile")]
    ELSE /\ procs' = ps
         /\ FlashRespond(r, [status |-> 500,
                             error |-> "arduino-cli not available on PATH"])

\* the handler that reports success whatever became of upload
FlashAfterUploadAnyway(r, ps, result) ==
    /\ procs' = ps
    /\ FlashRespond(r, [status |-> 200, ok |-> TRUE, msg |-> "Upload complete"])

\* lines 514-516: after await spawnCliAndStream(uploadArgs)
FlashAfterUpload(r, ps, result) ==
    /\ procs' = ps
    /\ IF result.ok
       THEN FlashRespond(r, [status |-> 200, ok |-> TRUE, msg |-> "Upload complete"])
       ELSE FlashFailed(r, result)

\* an event handler of child p has run and left the invocation as rec; if it
\* settled the promise, the code awaiting it goes on
Deliver(p, rec, fails) ==
    LET ps == [procs EXCEPT ![p] = rec] IN
    IF p[1] = Direct \/ procs[p].settled # << >> \/ rec.settled = << >>
    THEN procs' = ps /\ UNCHANGED flash
    ELSE IF p[2] = "version" THEN FlashAfterProbe(p[1], ps, rec.settled[1], fails)
    ELSE IF p[2] = "compile" THEN FlashAfterCompile(p[1], ps, rec.settled[1], fails)
    ELSE FlashAfterUpload(p[1], ps, rec.settled[1])

\* the handler without the check of fqbn
FlashStartAnyFqbn(r, sketchPath, port, fqbn, fails) ==
    /\ flash[r].pc = "idle"
    /\ UNCHANGED <<clockVars, rateVars, credVars, authVars, gateVars>>
    /\ LET body == [sketchPath |-> sketchPath, port |-> port, fqbn |-> fqbn]
           sanitizedPath == sanitizePath(sketchPath)
           resolvedSketch == pathResolve(PROJECT_ROOT, sanitizedPath[1])
           bad(msg) == /\ FlashRespondTo(r, body, [status |-> 400, error |-> msg])
                       /\ UNCHANGED procs
       IN
       IF FalsyText(sketchPath) \/ FalsyValue(port) THEN bad("Missing sketchPath or port")
       ELSE IF ~isValidSerialPort(port) THEN bad("Invalid serial port identifier")
       ELSE IF sanitizedPath = << >> THEN bad("Invalid sketch path")
       ELSE IF ~InsideProjectRoot(resolvedSketch)
       THEN bad("Sketch path must stay within project workspace")
       ELSE IF ~AllowedExtension(resolvedSketch)
       THEN bad("Unsupported sketch file extension")
       ELSE IF resolvedSketch \in Directories
       THEN bad("Sketch path must point to a file")
       ELSE IF resolvedSketch \notin Files THEN bad("Sketch file not found")
       ELSE /\ procs' = [procs EXCEPT ![<<r, "version">>] = SpawnProbe(fails, now)]
            /\ flash' = [flash EXCEPT ![r] =
                  [pc |-> "version", args |-> <<"version">>, spawns |-> <<"version">>,
                   sketch |-> resolvedSketch,
                   port |-> port.v,
                   fqbn |-> fqbn, body |-> body]]

\* lines 459-499: validation and the spawn of the version probe
FlashStart(r, sketchPath, port, fqbn, fails) ==
    /\ flash[r].pc = "idle"
    /\ UNCHANGED <<clockVars, rateVars, credVars, authVars, gateVars>>
    /\ LET body == [sketchPath |-> sketchPath, port |-> port, fqbn |-> fqbn]
           sanitizedPath == sanitizePath(sketchPath)
           resolvedSketch == pathResolve(PROJECT_ROOT, sanitizedPath[1])
           bad(msg) == /\ FlashRespondTo(r, body, [status |-> 400, error |-> msg])
                       /\ UNCHANGED procs
       IN
       IF FalsyText(sketchPath) \/ FalsyValue(port) THEN bad("Missing sketchPath or port")
       ELSE IF ~isValidSerialPort(port) THEN bad("Invalid serial port identifier")
       ELSE IF ~isValidFqbn(fqbn) THEN bad("Invalid FQBN value")
       ELSE IF sanitizedPath = << >> THEN bad("Invalid sketch path")
       ELSE IF ~InsideProjectRoot(resolvedSketch)
       THEN bad("Sketch path must stay within project workspace")
       ELSE IF ~AllowedExtension(resolvedSketch)
       THEN bad("Unsupported sketch file extension")
       ELSE IF resolvedSketch \in Directories
       THEN bad("Sketch path must point to a file")
       ELSE IF resolvedSketch \notin Files THEN bad("Sketch file not found")
       ELSE /\ procs' = [procs EXCEPT ![<<r, "version">>] = SpawnProbe(fails, now)]
            /\ flash' = [flash EXCEPT ![r] =
                  [pc |-> "version", args |-> <<"version">>, spawns |-> <<"version">>,
                   sketch |-> resolvedSketch,
                   port |-> port.v, fqbn |-> fqbn, body |-> body]]

\* a direct call spawnCliAndStream(args, options), line 525
SpawnCliAndStream(options, fails) ==
    /\ procs[<<Direct, "compile">>].child = "none"
    /\ procs' = [procs EXCEPT ![<<Direct, "compile">>] = SpawnCli(options, fails, now)]
    /\ UNCHANGED <<clockVars, rateVars, credVars, authVars, gateVars, flash>>

\* lines 543-544: a 'data' event of stdout or stderr
ChildData(p, chunk) ==
    /\ Cli(p)
    /\ procs[p].child \in {"running", "exited"}
    /\ procs[p].chunks < MaxChunks
    /\ procs' = [procs EXCEPT ![p] =
          [@ EXCEPT !.output = appendChunk(@, chunk, procs[p].maxBuffer),
                    !.received = @ \o chunk,
                    !.chunks = @ + 1]]
    /\ UNCHANGED <<clockVars, rateVars, credVars, authVars, gateVars, flash>>

\* the child ends on its own
ChildExit(p, code) ==
    /\ procs[p].child = "running"
    /\ procs' = [procs EXCEPT ![p] =
          [@ EXCEPT !.child = "exited",
                    !.exit = <<[code |-> <<code>>, signal |-> << >>]>>]]
    /\ UNCHANGED <<clockVars, rateVars, credVars, authVars, gateVars, flash>>

\* the child dies of a SIGTERM it was sent
ChildTerminated(p) ==
    /\ Cli(p)
    /\ procs[p].child = "running"
    /\ \E i \in 1..Len(procs[p].signals) :
          procs[p].signals[i].signal = "SIGTERM" /\ procs[p].signals[i].sent
    /\ procs' = [procs EXCEPT ![p] =
          [@ EXCEPT !.child = "exited",
                    !.exit = <<[code |-> << >>, signal |-> <<"SIGTERM">>]>>]]
    /\ UNCHANGED <<clockVars, rateVars, credVars, authVars, gateVars, flash>>

\* lines 546-552: the kill timer is due
KillTimerFire(p) ==
    /\ Cli(p)
    /\ procs[p].killTimer = "pending"
    /\ now = procs[p].spawnedAt + procs[p].timeoutMs
    /\ procs' = [procs EXCEPT ![p] = onKillTimer(@, now)]
    /\ UNCHANGED <<clockVars, rateVars, credVars, authVars, gateVars, flash>>

\* line 551: the nested timer is due
SigkillTimerFire(p) ==
    /\ Cli(p)
    /\ procs[p].sigkillTimer # << >>
    /\ ~procs[p].sigkillTimer[1].fired
    /\ now = procs[p].sigkillTimer[1].due
    /\ procs' = [procs EXCEPT ![p] = onSigkillTimer(@, now)]
    /\ UNCHANGED <<clockVars, rateVars, credVars, authVars, gateVars, flash>>

\* the 'error' event of a child that could not be spawned
ChildError(p, fails) ==
    /\ procs[p].child = "failed"
    /\ Deliver(p, IF procs[p].runner THEN onError(procs[p], "ENOENT")
                  ELSE onProbeError(procs[p], "ENOENT"), fails)
    /\ UNCHANGED <<clockVars, rateVars, credVars, authVars, gateVars>>

\* the 'close' event
ChildClose(p, fails) ==
    /\ procs[p].child \in {"exited", "errored"}
    /\ Deliver(p, IF procs[p].runner THEN onClose(procs[p], procs[p].exit[1].code, now)
                  ELSE onProbeClose(procs[p], procs[p].exit[1].code), fails)
    /\ UNCHANGED <<clockVars, rateVars, credVars, authVars, gateVars>>

\* the amounts by which the clock advances while children run: one
\* millisecond, or up to the instant a pending timer is due
RunSteps == {1} \cup {dl - now : dl \in AllDeadlines}

\* time passes, but not past a pending timer, and not before the 'error'
\* event of a failed spawn, which is emitted on the next tick
RunTick ==
    /\ \A p \in PIds : procs[p].child # "failed"
    /\ \E d \in RunSteps :
          /\ d > 0
          /\ \A dl \in AllDeadlines : now + d <= dl
          /\ Tick(d)
    /\ UNCHANGED <<rateVars, credVars, authVars, cliVars, gateVars>>

(***************************************************************************)
(* The middleware in front of the protected routes: the global middleware  *)
(* of index.js 321-346 and authMiddleware, auth.js 31-55.  An              *)
(* Authorization header is a sequence of tokens: " " and words without a   *)
(* space.                                                                  *)
(***************************************************************************)
\* the routes registered with authMiddleware, index.js 400-702, and two
\* registered without it
ProtectedRoutes == {"/api/geocode", "/api/weather", "/api/ports", "/api/flash",
                    "/api/logout", "/api/me"}

Routes == ProtectedRoutes \cup {"/api/health", "/api/login"}

GateIds == {"g1"}

\* auth.js line 4: TOKEN_EXPIRY '4h', in milliseconds
TOKEN_EXPIRY_MS == 14400000

\* what jwt.verify finds in the tokens that clients send: the key of the
\* signature, the iss and aud claims, and exp in seconds.  jwt.good was
\* issued by signToken when the clock started, jwt.expired four hours before.
Jwt(word) ==
    IF word = "jwt.good"
    THEN <<[key |-> "SECRET", iss |-> "esp32-demo-backend",
            aud |-> "esp32-climate-suite", exp |-> TOKEN_EXPIRY_MS \div 1000,
            payload |-> [id |-> "user_0", email |-> "a@b.com"]]>>
    ELSE IF word = "jwt.expired"
    THEN <<[key |-> "SECRET", iss |-> "esp32-demo-backend",
            aud |-> "esp32-climate-suite", exp |-> 0,
            payload |-> [id |-> "user_0", email |-> "a@b.com"]]>>
    ELSE IF word = "jwt.forged"
    THEN <<[key |-> "other", iss |-> "esp32-demo-backend",
            aud |-> "esp32-climate-suite", exp |-> TOKEN_EXPIRY_MS \div 1000,
            payload |-> [id |-> "user_0", email |-> "a@b.com"]]>>
    ELSE IF word = "jwt.otherAudience"
    THEN <<[key |-> "SECRET", iss |-> "esp32-demo-backend",
            aud |-> "another-suite", exp |-> TOKEN_EXPIRY_MS \div 1000,
            payload |-> [id |-> "user_0", email |-> "a@b.com"]]>>
    ELSE << >>

HeaderInputs ==
    {Undefined,
     Text(<< >>),
     Text(<<"Bearer", " ", "jwt.good">>),
     Text(<<"Bearer", " ", "jwt.expired">>),
     Text(<<"Bearer", " ", "jwt.forged">>),
     Text(<<"Bearer", " ", "jwt.otherAudience">>),
     Text(<<"Bearer", " ", "garbage">>),
     Text(<<"Bearer", " ", " ", "jwt.good">>),
     Text(<<"Bearer", " ", "jwt.good", " ">>),
     Text(<<"bearer", " ", "jwt.good">>),
     Text(<<"Basic", " ", "jwt.good">>),
     Text(<<"jwt.good">>),
     Text(<<"Bearer">>)}

\* the Origin header: << >> when absent
OriginInputs == {<< >>, <<"http://localhost:5173">>, <<"http://evil.example">>}

\* index.js line 283: DEFAULT_ALLOWED_ORIGINS
allowedOriginSet ==
    {"http://localhost:5173", "http://localhost:4173", "http://localhost:3000"}

\* s.split(sep): the parts, each a sequence of tokens
RECURSIVE SplitOn(_, _)
SplitOn(s, sep) ==
    IF \A i \in 1..Len(s) : s[i] # sep THEN <<s>>
    ELSE LET k == CHOOSE i \in 1..Len(s) :
                     s[i] = sep /\ \A j \in 1..(i - 1) : s[j] # sep
         IN <<SubSeq(s, 1, k - 1)>> \o SplitOn(SubSeq(s, k + 1, Len(s)), sep)

\* auth.js lines 31-40: the payload in a sequence, << >> for null; part is
\* one part of the header, a sequence of at most one word
verifyToken(part, t) ==
    IF Len(part) # 1 THEN << >>
    ELSE LET found == Jwt(part[1]) IN
         IF found = << >> THEN << >>
         ELSE IF found[1].key # "SECRET" THEN << >>
         ELSE IF found[1].iss # "esp32-demo-backend" THEN << >>
         ELSE IF found[1].aud # "esp32-climate-suite" THEN << >>
         ELSE IF (t \div 1000) >= found[1].exp THEN << >>
         ELSE <<found[1].payload>>

\* authMiddleware that accepts any scheme word
authMiddlewareAnyScheme(auth, t) ==
    IF FalsyText(auth)
    THEN [next |-> FALSE, status |-> 401, error |-> "Missing Authorization header"]
    ELSE LET parts == SplitOn(auth.v, " ") IN
         IF Len(parts) # 2
         THEN [next |-> FALSE, status |-> 401, error |-> "Bad Authorization format"]
         ELSE IF verifyToken(parts[2], t) = << >>
         THEN [next |-> FALSE, status |-> 401, error |-> "Invalid or expired token"]
         ELSE [next |-> TRUE, user |-> verifyToken(parts[2], t)[1]]

\* auth.js lines 42-55: next() with req.user, or the 401 sent
authMiddleware(auth, t) ==
    IF FalsyText(auth)
    THEN [next |-> FALSE, status |-> 401, error |-> "Missing Authorization header"]
    ELSE LET parts == SplitOn(auth.v, " ") IN
         IF Len(parts) # 2 \/ parts[1] # <<"Bearer">>
         THEN [next |-> FALSE, status |-> 401, error |-> "Bad Authorization format"]
         ELSE IF verifyToken(parts[2], t) = << >>
         THEN [next |-> FALSE, status |-> 401, error |-> "Invalid or expired token"]
         ELSE [next |-> TRUE, user |-> verifyToken(parts[2], t)[1]]

\* index.js lines 304-346 and 738-748: the global middleware in the order of
\* registration, cors, express.json and the global limiter, the latter two
\* by their verdict on the request
globalMiddleware(origin, malformed, limited) ==
    IF origin # << >> /\ origin[1] \notin allowedOriginSet
    THEN [next |-> FALSE, status |-> 403, error |-> "CORS origin denied"]
    ELSE IF malformed
    THEN [next |-> FALSE, status |-> 400, error |-> "Malformed request payload"]
    ELSE IF limited
    THEN [next |-> FALSE, status |-> 429,
          error |-> "Too many requests, please try again later."]
    ELSE [next |-> TRUE]

\* a request travels through the global middleware and, on a protected
\* route, through authMiddleware; it ends with a response or in the handler
GateRequest(q, route, origin, malformed, limited, auth) ==
    /\ gate[q].pc = "idle"
    /\ LET request == [route |-> route, origin |-> origin, malformed |-> malformed,
                       limited |-> limited, auth |-> auth, at |-> now]
           global == globalMiddleware(origin, malformed, limited)
           authed == authMiddleware(auth, now)
       IN
       IF ~global.next
       THEN /\ gate' = [gate EXCEPT ![q] =
                  [pc |-> "responded", by |-> "global", request |-> request,
                   response |-> [status |-> global.status, error |-> global.error]]]
            /\ UNCHANGED gateSeen
       ELSE IF route \notin ProtectedRoutes
       THEN /\ gate' = [gate EXCEPT ![q] =
                  [pc |-> "handler", request |-> request, user |-> << >>]]
            /\ UNCHANGED gateSeen
       ELSE IF ~authed.next
       THEN /\ gate' = [gate EXCEPT ![q] =
                  [pc |-> "responded", by |-> "auth", request |-> request,
                   response |-> [status |-> authed.status, error |-> authed.error]]]
            /\ gateSeen' = gateSeen \cup {[status |-> authed.status, error |-> authed.error]}
       ELSE /\ gate' = [gate EXCEPT ![q] =
                  [pc |-> "handler", request |-> request, user |-> <<authed.user>>]]
            /\ UNCHANGED gateSeen
    /\ UNCHANGED <<clockVars, rateVars, credVars, authVars, cliVars>>

\* the request is over and the slot serves the next one
GateFinish(q) ==
    /\ gate[q].pc # "idle"
    /\ gate' = [gate EXCEPT ![q] = [pc |-> "idle"]]
    /\ UNCHANGED <<clockVars, rateVars, credVars, authVars, cliVars, gateSeen>>

\* the amounts by which the clock advances between requests
GateSteps == {1, TOKEN_EXPIRY_MS}

GateTick ==
    /\ \E d \in GateSteps : Tick(d)
    /\ UNCHANGED <<rateVars, credVars, authVars, cliVars, gateVars>>

\* the stores and the request slots right after start-up
InitStores ==
    /\ now = 0
    /\ ticks = 0
    /\ rateLimitStore = EmptyMap
    /\ rlLast = << >>
    /\ rlSeen = [k \in RateKeys |-> 0]
    /\ rlAllowed = << >>
    /\ rlShadow = [store |-> EmptyMap, agree |-> TRUE]
    /\ credShadow = [store |-> EmptyMap, agree |-> TRUE]
    /\ credentialThrottleStore = EmptyMap
    /\ credLast = << >>
    /\ cfLog = << >>
    /\ resetPending = [k \in Identities |-> << >>]
    /\ reqs = [r \in ReqIds |-> IdleReq]
    /\ obs = ObsIdle
    /\ procs = [p \in PIds |-> NoProc]
    /\ flash = [r \in FlashIds |-> [pc |-> "idle", spawns |-> << >>]]
    /\ gate = [q \in GateIds |-> [pc |-> "idle"]]
    /\ gateSeen = {}

Init ==
    /\ InitStores
    /\ mongoConnected = FALSE
    /\ mongoUsers = EmptyMap
    /\ inMemoryUsers = EmptyMap

\* a user that registered with password abcd1234 before the clock started
RegisteredUser(email, id) ==
    [id |-> id, email |-> email, password_hash |-> Hash("abcd1234")]

\* the server with no request in flight and both throttle stores empty, the
\* watched email registered or not in either user store
LoginInit ==
    /\ InitStores
    /\ mongoConnected = FALSE
    /\ \E registered \in SUBSET {Watched} :
          /\ mongoUsers = [e \in registered |-> RegisteredUser(e, <<"oid", 0>>)]
          /\ inMemoryUsers = [e \in registered |-> RegisteredUser(e, <<"user_", 0>>)]

RateNext ==
    \/ \E key \in RateKeys : RateLimitCall(key)
    \/ RateSweep /\ UNCHANGED <<credVars, authVars, cliVars, gateVars>>
    \/ RateTick

SpecRate == Init /\ [][RateNext]_vars

CredNext ==
    \/ \E key \in Identities :
          /\ \/ GetCredentialThrottleCall(key)
             \/ RecordCredentialFailureCall(key)
             \/ ResetCredentialFailuresCall(key)
          /\ UNCHANGED <<clockVars, rateVars, authVars, cliVars, gateVars>>
    \/ CredSweep /\ UNCHANGED <<rateVars, authVars, cliVars, gateVars>>
    \/ CredTick /\ UNCHANGED <<rateVars, credVars, authVars, cliVars, gateVars>>

SpecCred == Init /\ [][CredNext]_vars

\* the calls of one client with one identity, the two sweeps, and the clock
CountersNext ==
    \/ RateLimitCall(WatchedKey)
    \/ /\ \/ GetCredentialThrottleCall(Watched)
          \/ RecordCredentialFailureCall(Watched)
          \/ ResetCredentialFailuresCall(Watched)
       /\ UNCHANGED <<clockVars, rateVars, authVars, cliVars, gateVars>>
    \/ RateSweep /\ UNCHANGED <<credVars, authVars, cliVars, gateVars>>
    \/ CredSweep /\ UNCHANGED <<rateVars, authVars, cliVars, gateVars>>
    \/ /\ \E d \in RateSteps \cup CredSteps : Tick(d)
       /\ UNCHANGED <<rateVars, credVars, authVars, cliVars, gateVars>>

SpecCounters == Init /\ [][CountersNext]_vars

\* POST /api/login serving one request at a time
LoginSeqNext ==
    \/ \E r \in SeqReqIds, email \in LoginEmailInputs,
             password \in LoginPasswordInputs, ip \in Ips :
          AllIdle /\ LoginStart(r, email, password, ip)
    \/ \E r \in SeqReqIds, throws \in BOOLEAN : LoginFindOne(r, throws)
    \/ \E r \in SeqReqIds : LoginCompare(r)
    \/ \E r \in SeqReqIds :
          Finish(r) /\ UNCHANGED <<clockVars, rateVars, credVars, userVars, obs, cliVars, gateVars>>
    \/ MongoConnect
    \/ MongoDisconnect
    \/ AuthTick
    \/ CredSweep /\ UNCHANGED <<rateVars, authVars, cliVars, gateVars>>
    \/ RateSweep /\ UNCHANGED <<credVars, authVars, cliVars, gateVars>>

SpecLoginSeq == LoginInit /\ [][LoginSeqNext]_vars

\* the login bodies of the clients that try passwords for the watched account
PairEmailInputs == {Str("a@b.com")}

\* POST /api/login, two requests in flight at once for the watched account,
\* the users held in memory
LoginPairNext ==
    \/ \E r \in ReqIds, email \in PairEmailInputs,
             password \in LoginPasswordInputs, ip \in Ips :
          LoginStart(r, email, password, ip)
    \/ \E r \in ReqIds : LoginCompare(r)
    \/ \E r \in ReqIds :
          Finish(r) /\ UNCHANGED <<clockVars, rateVars, credVars, userVars, obs, cliVars, gateVars>>
    \/ AuthTick
    \/ CredSweep /\ UNCHANGED <<rateVars, authVars, cliVars, gateVars>>

SpecLoginPair == LoginInit /\ [][LoginPairNext]_vars

\* JSON values of every shape for body.email and body.password
BodyEmailInputs == {Undefined, Num(0), Num(5), Str(""), Str("nobody"), Str("a@b.com")}

BodyPasswordInputs == {Undefined, Num(0), Num(5), Str(""), Str("short"), Str("abcd1234")}

\* POST /api/register and POST /api/login with these bodies, one request at
\* a time within one millisecond, the users held in memory
AuthInputsNext ==
    \/ \E r \in SeqReqIds, email \in BodyEmailInputs,
             password \in BodyPasswordInputs, ip \in Ips :
          AllIdle /\ RegisterStart(r, email, password, ip)
    \/ \E r \in SeqReqIds, email \in BodyEmailInputs,
             password \in BodyPasswordInputs, ip \in Ips :
          AllIdle /\ LoginStart(r, email, password, ip)
    \/ \E r \in SeqReqIds : RegisterHashed(r)
    \/ \E r \in SeqReqIds : LoginCompare(r)
    \/ \E r \in SeqReqIds :
          Finish(r) /\ UNCHANGED <<clockVars, rateVars, credVars, userVars, obs, cliVars, gateVars>>

SpecAuthInputs == Init /\ [][AuthInputsNext]_vars

\* POST /api/register, one request per slot, the requests interleaved
RegisterNext ==
    \/ \E r \in ReqIds, email \in RegisterEmailInputs,
             password \in RegisterPasswordInputs, ip \in Ips :
          RegisterStart(r, email, password, ip)
    \/ \E r \in ReqIds : RegisterHashed(r)
    \/ \E r \in ReqIds, throws \in BOOLEAN : RegisterSave(r, throws)
    \/ MongoConnect
    \/ MongoDisconnect
    \/ AuthTick

SpecRegister == Init /\ [][RegisterNext]_vars

\* one direct invocation of spawnCliAndStream
RunNext ==
    \/ \E options \in OptionInputs, fails \in BOOLEAN : SpawnCliAndStream(options, fails)
    \/ \E p \in PIds, chunk \in ChunkInputs : ChildData(p, chunk)
    \/ \E p \in PIds, code \in ExitCodes : ChildExit(p, code)
    \/ \E p \in PIds : ChildTerminated(p)
    \/ \E p \in PIds : KillTimerFire(p)
    \/ \E p \in PIds : SigkillTimerFire(p)
    \/ \E p \in PIds : ChildError(p, FALSE)
    \/ \E p \in PIds : ChildClose(p, FALSE)
    \/ RunTick

SpecRun == Init /\ [][RunNext]_vars

\* the chunks the children of a flash request write
FlashChunkInputs == {<<97>>}

\* one /api/flash request per slot
FlashNext ==
    \/ \E r \in SeqFlashIds, sketchPath \in SketchInputs, port \in PortInputs,
             fqbn \in FqbnInputs, fails \in BOOLEAN :
          FlashStart(r, sketchPath, port, fqbn, fails)
    \/ \E p \in PIds, chunk \in FlashChunkInputs : ChildData(p, chunk)
    \/ \E p \in PIds, code \in ExitCodes : ChildExit(p, code)
    \/ \E p \in PIds : ChildTerminated(p)
    \/ \E p \in PIds : KillTimerFire(p)
    \/ \E p \in PIds : SigkillTimerFire(p)
    \/ \E p \in PIds, fails \in BOOLEAN : ChildError(p, fails)
    \/ \E p \in PIds, fails \in BOOLEAN : ChildClose(p, fails)
    \/ RunTick

SpecFlash == Init /\ [][FlashNext]_vars

\* the body of two clients that flash the same sketch to the same port
PairSketchInputs == {Text(<<"sketches", "/", "blink.ino">>)}

PairPortInputs == {Text(<<"/", "d", "e", "v", "/", "t", "t", "y", "U", "S", "B", "0">>)}

\* two /api/flash requests in flight at once; each compile writes at most
\* one chunk
FlashPairNext ==
    \/ \E r \in FlashIds, sketchPath \in PairSketchInputs, port \in PairPortInputs,
             fails \in BOOLEAN :
          FlashStart(r, sketchPath, port, Undefined, fails)
    \/ \E p \in PIds, chunk \in FlashChunkInputs :
          ChildData(p, chunk) /\ procs[p].chunks = 0 /\ p[2] = "compile"
    \/ \E p \in PIds, code \in ExitCodes : ChildExit(p, code)
    \/ \E p \in PIds : ChildTerminated(p)
    \/ \E p \in PIds : KillTimerFire(p)
    \/ \E p \in PIds : SigkillTimerFire(p)
    \/ \E p \in PIds : ChildError(p, FALSE)
    \/ \E p \in PIds, fails \in BOOLEAN : ChildClose(p, fails)
    \/ RunTick

SpecFlashPair == Init /\ [][FlashPairNext]_vars

\* port and fqbn values of every shape, for requests that name one sketch
WideSketchInputs == {Undefined, Text(<<"sketches", "/", "blink.ino">>)}

WidePortInputs ==
    {Undefined, Num(0), Num(5), Text(<< >>),
     Text(<<"/", "d", "e", "v", "/", "t", "t", "y", "U", "S", "B", "0">>),
     Text(Repeat("a", 200)), Text(Repeat("a", 201)),
     Text(<<"C", "O", "M", "3", ";", " ", "r", "e", "b", "o", "o", "t">>),
     Text(<<"a", "|", "b">>), Text(<<"a", " ", "b">>), Text(<<"$", "(", "x", ")">>),
     Text(<<"a", "\n">>), Text(<<"a", "&", "b">>)}

WideFqbnInputs ==
    {Undefined, Num(0), Num(5), Text(<< >>),
     Text(<<"a", ":", "b">>), Text(<<"a", "b">>), Text(<<"a">>),
     Text(Repeat("a", 120)), Text(Repeat("a", 121)),
     Text(<<"a", " ", "b">>), Text(<<"a", ";", "b", ":", "c">>), Text(<<"a", "/", "b", ":", "c">>)}

\* one /api/flash request per slot, with these port and fqbn values
FlashInputsNext ==
    \/ \E r \in SeqFlashIds, sketchPath \in WideSketchInputs, port \in WidePortInputs,
             fqbn \in WideFqbnInputs, fails \in BOOLEAN :
          FlashStart(r, sketchPath, port, fqbn, fails)
    \/ \E p \in PIds, chunk \in FlashChunkInputs : ChildData(p, chunk)
    \/ \E p \in PIds, code \in ExitCodes : ChildExit(p, code)
    \/ \E p \in PIds : ChildTerminated(p)
    \/ \E p \in PIds : KillTimerFire(p)
    \/ \E p \in PIds : SigkillTimerFire(p)
    \/ \E p \in PIds, fails \in BOOLEAN : ChildError(p, fails)
    \/ \E p \in PIds, fails \in BOOLEAN : ChildClose(p, fails)
    \/ RunTick

SpecFlashInputs == Init /\ [][FlashInputsNext]_vars

\* the least of a non-empty set of instants
Earliest(S) == CHOOSE t \in S : \A u \in S : t <= u

\* time passes until the next pending timer is due
TimerTick ==
    /\ AllDeadlines # {}
    /\ \A p \in PIds : procs[p].child # "failed"
    /\ now < Earliest(AllDeadlines)
    /\ now' = Earliest(AllDeadlines)
    /\ ticks' = ticks + 1
    /\ UNCHANGED <<rateVars, credVars, authVars, cliVars, gateVars>>

\* one /api/flash request per slot; time passes from timer to timer
FlashLiveNext ==
    \/ \E r \in SeqFlashIds, sketchPath \in WideSketchInputs, port \in PortInputs,
             fqbn \in FqbnInputs, fails \in BOOLEAN :
          FlashStart(r, sketchPath, port, fqbn, fails)
    \/ \E p \in PIds, chunk \in FlashChunkInputs : ChildData(p, chunk)
    \/ \E p \in PIds, code \in ExitCodes : ChildExit(p, code)
    \/ \E p \in PIds : ChildTerminated(p)
    \/ \E p \in PIds : KillTimerFire(p)
    \/ \E p \in PIds : SigkillTimerFire(p)
    \/ \E p \in PIds, fails \in BOOLEAN : ChildError(p, fails)
    \/ \E p \in PIds, fails \in BOOLEAN : ChildClose(p, fails)
    \/ TimerTick

\* Time passes, a timer that is due runs its callback, and the 'error' and
\* 'close' events of a child that has ended are delivered.  Nothing makes a
\* child end on its own or on SIGTERM.
FlashFairness ==
    /\ WF_vars(TimerTick)
    /\ \A p \in PIds :
          /\ WF_vars(KillTimerFire(p))
          /\ WF_vars(SigkillTimerFire(p))
          /\ WF_vars(\E fails \in BOOLEAN : ChildError(p, fails))
          /\ WF_vars(\E fails \in BOOLEAN : ChildClose(p, fails))

SpecFlashLive == Init /\ [][FlashLiveNext]_vars /\ FlashFairness

\* requests arriving at the routes, one at a time per slot
GateNext ==
    \/ \E q \in GateIds, route \in Routes, origin \in OriginInputs,
             malformed \in BOOLEAN, limited \in BOOLEAN, auth \in HeaderInputs :
          GateRequest(q, route, origin, malformed, limited, auth)
    \/ \E q \in GateIds : GateFinish(q)
    \/ GateTick

SpecGate == Init /\ [][GateNext]_vars

(***************************************************************************)
(* Properties of the sliding-window counter, checked under SpecRate.       *)
(***************************************************************************)

\* C2: counting from the rateLimit(key) call that found no live record, the
\* first MAX calls of a window are allowed, and every later call made while
\* the record is still live is denied with a retry-after greater than 0.
C2_MaxAllowedThenDenied ==
    \A i \in 1..Len(rlLast) :
        LET c == rlLast[i] IN
        /\ rlSeen[c.key] <= RATE_LIMIT_MAX_REQUESTS => c.result.allowed
        /\ rlSeen[c.key] > RATE_LIMIT_MAX_REQUESTS
              => ~c.result.allowed /\ c.result.retryAfter > 0

\* C3: a rateLimit(key) call made at least WINDOW_MS after the record's
\* windowStart is allowed and leaves a fresh record {windowStart: now, count: 1}.
C3_FreshWindowAfterWindowMs ==
    \A i \in 1..Len(rlLast) :
        LET c == rlLast[i] IN
        (c.hadRecord /\ c.at - c.pre.windowStart >= RATE_LIMIT_WINDOW_MS)
            => /\ c.result.allowed
               /\ c.post = [windowStart |-> c.at, count |-> 1]

(***************************************************************************)
(* Properties of the credential failure throttle, checked under SpecCred.  *)
(***************************************************************************)

\* the log holds five failures with no reset between them, the fifth recorded
\* at this instant and at most CREDENTIAL_WINDOW_MS after the first
FiveFailuresInSpan ==
    /\ Len(cfLog) = CREDENTIAL_MAX_FAILURES
    /\ cfLog[CREDENTIAL_MAX_FAILURES].at = now
    /\ cfLog[CREDENTIAL_MAX_FAILURES].at - cfLog[1].at <= CREDENTIAL_WINDOW_MS

\* C4 (as claimed): whenever five failures are recorded for an identity with
\* no reset between them and within a span of CREDENTIAL_WINDOW_MS,
\* getCredentialThrottle right after the fifth reports blocked.
C4_FiveFailuresBlock == FiveFailuresInSpan => Blocked(Watched)

\* C4 (amended): the same, when the first of the five failures found no live
\* record for the identity (none, or one older than the window).
C4_FiveFailuresFromFreshBlock ==
    (FiveFailuresInSpan /\ cfLog[1].fresh) => Blocked(Watched)

\* C4 witness: five failures from a fresh record, the fifth exactly
\* CREDENTIAL_WINDOW_MS after the first, and the identity is blocked.
C4_Witness ==
    /\ FiveFailuresInSpan
    /\ cfLog[1].fresh
    /\ cfLog[CREDENTIAL_MAX_FAILURES].at - cfLog[1].at = CREDENTIAL_WINDOW_MS
    /\ Blocked(Watched)

\* C5: after resetCredentialFailures(identity) the identity has no record and
\* getCredentialThrottle reports not blocked, whatever the count and the time
\* were; the next recordCredentialFailure leaves {failures: 1, firstFailure: now}.
C5_ResetDeletesRecord ==
    /\ \A k \in Identities :
          resetPending[k] # << >>
              => k \notin DOMAIN credentialThrottleStore /\ ~Blocked(k)
    /\ \A i \in 1..Len(credLast) :
          credLast[i].afterReset
              => credLast[i].post = [failures |-> 1, firstFailure |-> credLast[i].at]

\* C5 witness: a blocked identity has been reset, and a failure recorded after
\* an earlier reset started a new record at a later time.
C5_Witness ==
    /\ \E k \in Identities :
          resetPending[k] # << >> /\ resetPending[k][1].wasBlocked
    /\ Len(credLast) = 1
    /\ credLast[1].afterReset
    /\ credLast[1].at > 0

(***************************************************************************)
(* Properties of POST /api/login, checked under SpecLoginSeq.              *)
(***************************************************************************)

C7_OutputIsTail ==
    \A p \in PIds :
        Cli(p) =>
            LET all == Utf8Decode(procs[p].received) IN
            /\ Len(procs[p].output) <= procs[p].maxBuffer
            /\ procs[p].output = Suffix(all, Min(Len(all), procs[p].maxBuffer))

\* C8: for a spawned child, once timeoutMs has passed without a close the
\* kill timer has fired; when it fired the invocation set timedOut and called
\* kill(SIGTERM) at spawn + timeoutMs; kill(SIGKILL) follows exactly
\* SIGKILL_DELAY_MS later, after which the child no longer runs; and the
\* invocation, once settled, is rejected with timedOut = true.
C8_TimeoutKills ==
    \A p \in PIds :
        (Cli(p) /\ procs[p].spawned) =>
            LET i == procs[p]
                due == i.spawnedAt + i.timeoutMs
                closedInTime == i.closed # << >> /\ i.closed[1].at <= due
            IN
            /\ (now > due /\ ~closedInTime) => i.killTimer = "fired"
            /\ i.killTimer = "fired" =>
                  /\ i.timedOut
                  /\ Len(i.signals) >= 1
                  /\ i.signals[1].signal = "SIGTERM"
                  /\ i.signals[1].at = due
                  /\ i.sigkillTimer # << >>
                  /\ i.sigkillTimer[1].due = due + SIGKILL_DELAY_MS
                  /\ now > due + SIGKILL_DELAY_MS => i.sigkillTimer[1].fired
                  /\ i.sigkillTimer[1].fired =>
                        /\ Len(i.signals) = 2
                        /\ i.signals[2].signal = "SIGKILL"
                        /\ i.signals[2].at = due + SIGKILL_DELAY_MS
                        /\ i.child # "running"
                  /\ i.settled # << >> =>
                        /\ ~i.settled[1].ok
                        /\ "timedOut" \in DOMAIN i.settled[1]
                        /\ i.settled[1].timedOut

\* C8 witness: a child ignored SIGTERM, was sent SIGKILL SIGKILL_DELAY_MS
\* later, closed, and the invocation is rejected as timed out.
C8_Witness ==
    \E p \in PIds :
        /\ Cli(p)
        /\ procs[p].child = "closed"
        /\ Len(procs[p].signals) = 2
        /\ procs[p].signals[1].sent
        /\ procs[p].signals[2].sent
        /\ procs[p].exit[1].signal = <<"SIGKILL">>
        /\ procs[p].settled # << >>
        /\ ~procs[p].settled[1].ok
        /\ procs[p].settled[1].timedOut

\* the error names the exit code, as a field or in its message
CarriesExitCode(err, code) ==
    \/ "exitCode" \in DOMAIN err /\ err.exitCode = code
    \/ Len(err.message) = 2 /\ err.message[2] = code

\* C9: when a spawned child closes, the invocation resolves with the captured
\* output if and only if the timeout had not fired and the exit code is 0;
\* otherwise it rejects with an error that carries timedOut, the exit code and
\* the captured output.
C9_CloseOutcome ==
    \A p \in PIds :
        (Cli(p) /\ procs[p].spawned /\ procs[p].closed # << >>) =>
            LET c == procs[p].closed[1]
                s == procs[p].settled[1]
            IN
            /\ s.ok <=> (~c.timedOut /\ c.code = <<0>>)
            /\ s.ok => s.value = c.output
            /\ ~s.ok => /\ s.timedOut = c.timedOut
                        /\ s.cliOutput = c.output
                        /\ CarriesExitCode(s, c.code)

(***************************************************************************)
(* Properties of POST /api/flash, checked under SpecFlash.                 *)
(***************************************************************************)

\* C1: the upload child of a request exists only if the compile child of the
\* same request was spawned, closed with exit code 0 before its timeout
\* fired, and closed no later than the upload was spawned; and once compile
\* has failed or timed out the request has no upload child.
C1_UploadOnlyAfterCompile ==
    \A r \in FlashIds :
        LET c == procs[<<r, "compile">>]
            u == procs[<<r, "upload">>]
        IN
        /\ u.child # "none" =>
              /\ c.child = "closed"
              /\ c.spawned
              /\ c.closed[1].code = <<0>>
              /\ ~c.closed[1].timedOut
              /\ c.closed[1].at <= u.spawnedAt
        /\ (c.child # "none" /\ c.settled # << >> /\ ~c.settled[1].ok) =>
              u.child = "none"

\* C1 witness: compile wrote output and closed with code 0, and the upload
\* child of the same request is running.
C1_Witness ==
    \E r \in FlashIds :
        /\ procs[<<r, "upload">>].child = "running"
        /\ procs[<<r, "compile">>].output # << >>

\* C10: when the spawn of a compile or upload child fails, the invocation is
\* rejected with the 'Failed to run arduino-cli' error, which has no timedOut
\* field and a message unlike those of a close, carries the cause and an empty
\* captured output; the request is answered 500 and no later phase is spawned.
C10_SpawnFailureRejects ==
    \A p \in PIds :
        (Cli(p) /\ ~procs[p].spawned /\ procs[p].child \in {"errored", "closed"}) =>
            LET s == procs[p].settled[1] IN
            /\ ~s.ok
            /\ s.message = <<"Failed to run arduino-cli">>
            /\ "timedOut" \notin DOMAIN s
            /\ "cause" \in DOMAIN s
            /\ s.cause = "ENOENT"
            /\ s.cliOutput = << >>
            /\ p[1] \in FlashIds =>
                  /\ flash[p[1]].pc = "responded"
                  /\ flash[p[1]].response =
                        [status |-> 500, error |-> "Failed to compile or upload sketch"]
                  /\ p[2] = "compile" => procs[<<p[1], "upload">>].child = "none"

\* C10 witness: the compile child of a request could not be spawned, its
\* 'error' and then its 'close' event were delivered, and the request was
\* answered 500.
C10_Witness ==
    \E r \in FlashIds :
        /\ procs[<<r, "compile">>].child = "closed"
        /\ ~procs[<<r, "compile">>].spawned
        /\ flash[r].pc = "responded"
        /\ flash[r].response.status = 500

(***************************************************************************)
(* Properties of the sketch-path validation of POST /api/flash, checked    *)
(* under SpecFlash.                                                        *)
(***************************************************************************)

\* the path is the directory or lies in the tree below it
WithinTree(path, dir) ==
    /\ Len(path) >= Len(dir)
    /\ SubSeq(path, 1, Len(dir)) = dir
    /\ Len(path) > Len(dir) => path[Len(dir) + 1] = "/"

\* the request carries a non-empty sketchPath string
HasSketchPath(r) ==
    /\ flash[r].pc # "idle"
    /\ ~FalsyText(flash[r].body.sketchPath)
    /\ Trim(ReplaceBackslashes(flash[r].body.sketchPath.v)) # << >>

\* the location that the sketchPath of the request denotes
SketchLocation(r) ==
    pathResolve(PROJECT_ROOT, Trim(ReplaceBackslashes(flash[r].body.sketchPath.v)))

\* the request was answered 400 and has spawned no process
RejectedUnspawned(r) ==
    /\ flash[r].pc = "responded"
    /\ flash[r].response.status = 400
    /\ \A a \in Args : procs[<<r, a>>].child = "none"

\* C11: a request whose sketchPath denotes a location outside the tree of
\* PROJECT_ROOT is answered 400 and spawns no process.
C11_EscapingPathRejected ==
    \A r \in FlashIds :
        (HasSketchPath(r) /\ ~WithinTree(SketchLocation(r), PROJECT_ROOT))
            => RejectedUnspawned(r)

\* the normalized sketchPath has a ".." segment
HasParentSegment(r) ==
    LET segs == Split(posixNormalize(Trim(ReplaceBackslashes(flash[r].body.sketchPath.v))))
    IN \E i \in 1..Len(segs) : segs[i] = <<"..">>

\* C12: a request with a valid port and fqbn whose sketchPath, free of
\* parent-directory segments once normalized, denotes an existing plain file
\* in the tree of PROJECT_ROOT with an allow-listed extension is not answered
\* 400; one whose sketchPath denotes no file, or a directory, is answered 400.
C12_ValidPathAccepted ==
    \A r \in FlashIds :
        HasSketchPath(r) =>
            LET loc == SketchLocation(r) IN
            /\ ( /\ isValidSerialPort(flash[r].body.port)
                 /\ isValidFqbn(flash[r].body.fqbn)
                 /\ ~HasParentSegment(r)
                 /\ WithinTree(loc, PROJECT_ROOT)
                 /\ loc \in Files
                 /\ AllowedExtension(loc) )
                  => ~(flash[r].pc = "responded" /\ flash[r].response.status = 400)
            /\ loc \notin Files => RejectedUnspawned(r)

(***************************************************************************)
(* Properties of the middleware in front of the protected routes, checked  *)
(* under SpecGate.                                                         *)
(***************************************************************************)

\* the token is one that signToken issued and that has not expired at t
Genuine(word, t) ==
    /\ Jwt(word) # << >>
    /\ Jwt(word)[1].key = "SECRET"
    /\ Jwt(word)[1].iss = "esp32-demo-backend"
    /\ Jwt(word)[1].aud = "esp32-climate-suite"
    /\ t < Jwt(word)[1].exp * 1000

\* the header is 'Bearer', one space and a genuine token
BearerOfGenuine(auth, t) ==
    /\ auth.type = "string"
    /\ Len(auth.v) = 3
    /\ auth.v[1] = "Bearer"
    /\ auth.v[2] = " "
    /\ auth.v[3] # " "
    /\ Genuine(auth.v[3], t)

\* the global middleware has nothing against the request
PassesGlobal(request) ==
    /\ request.origin = << >> \/ request.origin[1] \in allowedOriginSet
    /\ ~request.malformed
    /\ ~request.limited

\* C13 (as claimed): on a protected route the handler runs only for a header
\* 'Bearer <genuine token>', and every other request is answered 401.
C13_GateGuardsHandler ==
    \A q \in GateIds :
        (gate[q].pc # "idle" /\ gate[q].request.route \in ProtectedRoutes) =>
            LET ok == BearerOfGenuine(gate[q].request.auth, gate[q].request.at) IN
            /\ gate[q].pc = "handler" => ok
            /\ ~ok => gate[q].pc = "responded" /\ gate[q].response.status = 401

\* C13 (amended): on a protected route the handler runs only for a header
\* 'Bearer <genuine token>'; every other request does not reach the handler,
\* and is answered 401 if the global middleware let it through.
C13_GateGuardsHandlerPastGlobal ==
    \A q \in GateIds :
        (gate[q].pc # "idle" /\ gate[q].request.route \in ProtectedRoutes) =>
            LET ok == BearerOfGenuine(gate[q].request.auth, gate[q].request.at) IN
            /\ gate[q].pc = "handler" => ok
            /\ ~ok => gate[q].pc = "responded"
            /\ (~ok /\ PassesGlobal(gate[q].request)) => gate[q].response.status = 401

\* C13 witness: after a request with a malformed header was answered 401, a
\* request with a genuine token reached the handler of /api/flash at a later
\* time.
C13_Witness ==
    \E q \in GateIds :
        /\ gate[q].pc = "handler"
        /\ gate[q].request.route = "/api/flash"
        /\ gate[q].request.at > 0
        /\ gate[q].user = <<[id |-> "user_0", email |-> "a@b.com"]>>
        /\ [status |-> 401, error |-> "Bad Authorization format"] \in gateSeen

\* C14: all the responses that authMiddleware sends for a request it turns
\* away have the same status and the same body.
C14_UniformRejection == Cardinality(gateSeen) <= 1

(***************************************************************************)
(* Properties of POST /api/register, checked under SpecRegister.           *)
(***************************************************************************)

\* the requests answered so far that registered, or tried to register, email
AnsweredFor(email) ==
    {r \in ReqIds : reqs[r].pc = "responded" /\ reqs[r].email = <<email>>}

\* C15: among the register requests for one normalized email that passed
\* validation and rate limiting, at most one is answered 200, and once one is,
\* every other that met no store error is answered 409.
C15_OneRegistrationPerEmail ==
    \A email \in Identities :
        LET ok == {r \in AnsweredFor(email) : reqs[r].response.status = 200} IN
        /\ Cardinality(ok) <= 1
        /\ ok # {} => \A r \in AnsweredFor(email) \ ok :
                          reqs[r].response.status \in {409, 500}

(***************************************************************************)
(* Properties of the phases of POST /api/flash, checked under SpecFlash.   *)
(***************************************************************************)

\* the sketchPath of the body fails one of the handler's checks of it
SketchPathFails(body) ==
    \/ FalsyText(body.sketchPath)
    \/ sanitizePath(body.sketchPath) = << >>
    \/ LET resolvedSketch == pathResolve(PROJECT_ROOT, sanitizePath(body.sketchPath)[1]) IN
       \/ ~InsideProjectRoot(resolvedSketch)
       \/ ~AllowedExtension(resolvedSketch)
       \/ resolvedSketch \notin Files

\* port, fqbn or sketchPath of the body fails validation
FailsValidation(body) ==
    \/ FalsyValue(body.port)
    \/ ~isValidSerialPort(body.port)
    \/ ~isValidFqbn(body.fqbn)
    \/ SketchPathFails(body)

\* C16: a request whose port, fqbn or sketchPath fails validation is answered
\* 400, and no probe, compile or upload process exists for it.
C16_InvalidInputSpawnsNothing ==
    \A r \in FlashIds :
        (flash[r].pc # "idle" /\ FailsValidation(flash[r].body))
            => RejectedUnspawned(r)

\* C16 witness: a request with a valid port and an existing sketch but an
\* invalid fqbn was answered 400.
C16_Witness ==
    \E r \in FlashIds :
        /\ flash[r].pc = "responded"
        /\ flash[r].response.status = 400
        /\ isValidSerialPort(flash[r].body.port)
        /\ ~SketchPathFails(flash[r].body)
        /\ ~isValidFqbn(flash[r].body.fqbn)

\* the probe of the request could not be spawned, or ended with a code other
\* than 0
ProbeFailed(r) ==
    LET v == procs[<<r, "version">>] IN
    /\ v.child # "none"
    /\ ~v.spawned \/ (v.exit # << >> /\ v.exit[1].code # <<0>>)

\* the answer to a request whose probe failed
ToolUnavailable == [status |-> 500, error |-> "arduino-cli not available on PATH"]

Failing(r, a) ==
    /\ procs[<<r, a>>].child # "none"
    /\ procs[<<r, a>>].settled # << >>
    /\ ~procs[<<r, a>>].settled[1].ok

TimeoutMessage == "Flash operation timed out. Please verify the board connection."

GenericMessage == "Failed to compile or upload sketch"

\* C18: when the compile or upload invocation of a request is rejected, the
\* request is answered 500, with the timeout message if the kill timer of that
\* invocation fired and with the generic message otherwise; and a response
\* carries one of the two messages only if an invocation was rejected.
C18_TimeoutMessageIffTimedOut ==
    \A r \in FlashIds :
        /\ \A a \in {"compile", "upload"} :
              Failing(r, a) =>
                  /\ flash[r].pc = "responded"
                  /\ flash[r].response =
                        [status |-> 500,
                         error |-> IF procs[<<r, a>>].killTimer = "fired"
                                   THEN TimeoutMessage ELSE GenericMessage]
        /\ ( /\ flash[r].pc = "responded"
             /\ flash[r].response.status = 500
             /\ flash[r].response.error \in {TimeoutMessage, GenericMessage} )
              => \E a \in {"compile", "upload"} : Failing(r, a)

\* C18 witness: the kill timer of the upload fired, the child was closed, and
\* the request was answered with the timeout message.
C18_Witness ==
    \E r \in FlashIds :
        /\ procs[<<r, "upload">>].child = "closed"
        /\ procs[<<r, "upload">>].killTimer = "fired"
        /\ flash[r].pc = "responded"
        /\ flash[r].response.error = TimeoutMessage

(***************************************************************************)
(* Properties of the throttling of POST /api/login, checked under          *)
(* SpecLoginSeq.                                                           *)
(***************************************************************************)

\* the IP counter holds a live window with the maximum of requests
IpDenied(ip) ==
    LET key == RateKey("login", ip) IN
    /\ key \in DOMAIN rateLimitStore
    /\ ~RateExpired(rateLimitStore[key], now)
    /\ rateLimitStore[key].count >= RATE_LIMIT_MAX_REQUESTS

\* the throttle holds a live record of the email with the maximum of failures
CredBlocked(email) ==
    /\ CredLive(credentialThrottleStore, email, now)
    /\ credentialThrottleStore[email].failures >= CREDENTIAL_MAX_FAILURES

\* the body passes the input checks of the login handler
ValidLoginBody(email, password) ==
    /\ ~Falsy(email) /\ ~Falsy(password)
    /\ email.type = "string" /\ password.type = "string"
    /\ isValidEmail(normalizedEmail(email.v))

\* slot r holds a 429 with a retry-after hint, sent before any user lookup or
\* password comparison
Throttled(r) ==
    /\ reqs[r].pc = "responded"
    /\ reqs[r].response.status = 429
    /\ "retryAfter" \in DOMAIN reqs[r].response
    /\ reqs[r].response.retryAfter \in Nat
    /\ ~reqs[r].response.lookedUp
    /\ ~reqs[r].response.compared

\* C19: a login with a valid body that arrives while the IP counter denies or
\* the credential throttle blocks its email is answered 429 with a retry-after
\* hint in the same step, without a user lookup or a password comparison, and
\* leaves the recorded credential failures as they were.
C19_ThrottledLoginReadsNothing ==
    [][\A r \in SeqReqIds, email \in LoginEmailInputs,
          password \in LoginPasswordInputs, ip \in Ips :
          ( /\ LoginStart(r, email, password, ip)
            /\ ValidLoginBody(email, password)
            /\ IpDenied(ip) \/ CredBlocked(normalizedEmail(email.v)) )
              => /\ Throttled(r)'
                 /\ credentialThrottleStore' = credentialThrottleStore]_vars

\* C19 witness: a login was answered 429 by the IP counter while the throttle
\* blocks the same email too.
C19_Witness ==
    \E r \in SeqReqIds :
        /\ reqs[r].pc = "responded"
        /\ reqs[r].response.status = 429
        /\ reqs[r].response.by = "ip"
        /\ CredBlocked(Watched)

\* the probe of the request was spawned and closed with exit code 0
ProbeSucceeded(r) ==
    LET v == procs[<<r, "version">>] IN
    /\ v.child = "closed"
    /\ v.spawned
    /\ v.exit[1].code = <<0>>

\* the compile or upload child of the request was spawned and closed with
\* exit code 0, and its kill timer had not fired
Succeeded(r, a) ==
    LET c == procs[<<r, a>>] IN
    /\ c.child = "closed"
    /\ c.spawned
    /\ c.closed[1].code = <<0>>
    /\ c.killTimer # "fired"

\* the request has come to an end: its body failed validation, one of its
\* phases failed, or its upload succeeded
Ended(r) ==
    \/ FailsValidation(flash[r].body)
    \/ ProbeFailed(r) /\ procs[<<r, "version">>].child \in {"errored", "closed"}
    \/ Failing(r, "compile")
    \/ Failing(r, "upload")
    \/ Succeeded(r, "upload")

Success == [status |-> 200, ok |-> TRUE, msg |-> "Upload complete"]

\* C20: a request is answered 200 if and only if its body passed validation,
\* its probe closed with code 0 and its compile and upload children closed
\* with code 0 before their kill timers fired, and the 200 carries the success
\* message; a request that has come to an end has been answered, and no
\* request is answered more than once.
C20_SuccessIffAllPhases ==
    \A r \in FlashIds :
        flash[r].pc # "idle" =>
            /\ (flash[r].pc = "responded" /\ flash[r].response.status = 200)
                  <=> ( /\ ~FailsValidation(flash[r].body)
                        /\ ProbeSucceeded(r)
                        /\ Succeeded(r, "compile")
                        /\ Succeeded(r, "upload") )
            /\ (flash[r].pc = "responded" /\ flash[r].response.status = 200)
                  => flash[r].response = Success
            /\ Ended(r) <=> flash[r].pc = "responded"
            /\ flash[r].pc = "responded" => flash[r].responses = 1

\* C20 witness: compile and upload both wrote output and closed with code 0,
\* and the request was answered 200.
C20_Witness ==
    \E r \in FlashIds :
        /\ flash[r].pc = "responded"
        /\ flash[r].response.status = 200
        /\ procs[<<r, "compile">>].output # << >>
        /\ procs[<<r, "upload">>].output # << >>

(***************************************************************************)
(* Properties of the checks of port and fqbn, checked under                *)
(* SpecFlashInputs.                                                        *)
(***************************************************************************)

\* the request was answered 400 with one of these errors
RejectedWith(r, errors) ==
    /\ flash[r].pc = "responded"
    /\ flash[r].response.status = 400
    /\ flash[r].response.error \in errors

\* a string of at most max characters, all of them in the class
StringOver(x, max, class) ==
    /\ x.type = "string"
    /\ Len(x.v) <= max
    /\ \A i \in 1..Len(x.v) : x.v[i] \in class

\* C21: a request that gets as far as the check of fqbn passes it if and only
\* if fqbn is absent (any falsy value) or a string of at most 120 characters,
\* each a word character, ':', '.' or '-'.
C21_FqbnAcceptedIffWellFormed ==
    \A r \in FlashIds :
        ( /\ flash[r].pc # "idle"
          /\ ~FalsyText(flash[r].body.sketchPath)
          /\ isValidSerialPort(flash[r].body.port) )
            => ( ~RejectedWith(r, {"Invalid FQBN value"})
                   <=> \/ FalsyValue(flash[r].body.fqbn)
                       \/ StringOver(flash[r].body.fqbn, 120,
                                     WordChars \cup {":", ".", "-"}) )

\* shell metacharacters and whitespace
ShellMeta == {";", "|", "&", "$", "(", ")", "<", ">", "\\", "\"", "'",
              "*", "?", "!", "#", "~", "{", "}", "[", "]", " ", "\t", "\n"}

\* the port is a non-empty string of at most 200 characters, each a word
\* character, '-', '/', '.' or ':'
WellFormedPort(port) ==
    /\ StringOver(port, 200, WordChars \cup {"-", "/", ".", ":"})
    /\ port.v # << >>

\* C22: a request with a sketchPath passes the checks of port if and only if
\* port is a non-empty string of at most 200 characters, each a word
\* character, '-', '/', '.' or ':'; a request whose port holds a shell
\* metacharacter or whitespace is answered 400 and spawns nothing; and the
\* port among the arguments of an upload is such a string.
C22_PortAcceptedIffWellFormed ==
    \A r \in FlashIds :
        flash[r].pc # "idle" =>
            LET port == flash[r].body.port IN
            /\ ~FalsyText(flash[r].body.sketchPath) =>
                  ( ~RejectedWith(r, {"Missing sketchPath or port",
                                      "Invalid serial port identifier"})
                      <=> WellFormedPort(port) )
            /\ ( /\ port.type = "string"
                 /\ \E i \in 1..Len(port.v) : port.v[i] \in ShellMeta )
                  => RejectedUnspawned(r)
            /\ flash[r].pc = "upload" =>
                  /\ WellFormedPort(port)
                  /\ SubSeq(flash[r].args, 3, 4) = <<"--port", port.v>>

\* C22 witness: the upload of a request with a port of 200 characters runs.
C22_Witness ==
    \E r \in FlashIds :
        /\ flash[r].pc = "upload"
        /\ procs[<<r, "upload">>].child = "running"
        /\ Len(flash[r].body.port.v) = 200
        /\ flash[r].args[4] = flash[r].body.port.v

(***************************************************************************)
(* Termination of POST /api/flash, checked under SpecFlashLive.            *)
(***************************************************************************)

\* C23: a request that passed validation, whose probe was spawned, is
\* eventually answered, whether or not its children end on their own.
C23_ValidatedRequestAnswered ==
    \A r \in FlashIds :
        (flash[r].pc = "version") ~> (flash[r].pc = "responded")

\* a request whose compile was spawned is eventually answered
CompilingRequestAnswered ==
    \A r \in FlashIds :
        (flash[r].pc = "compile") ~> (flash[r].pc = "responded")

(***************************************************************************)
(* Properties of the timers of spawnCliAndStream, checked under SpecRun.   *)
(***************************************************************************)

\* the signals that reached the child of the invocation
SentSignals(i) == {k \in 1..Len(i.signals) : i.signals[k].sent}

\* SIGKILL reached the child only SIGKILL_DELAY_MS after the kill timer fired,
\* and the child had not ended by then; no signal reached a closed child
SignalsAsClaimed(i) ==
    /\ \A k \in SentSignals(i) :
          i.signals[k].signal = "SIGKILL" =>
              /\ i.killTimer = "fired"
              /\ i.signals[k].at = i.spawnedAt + i.timeoutMs + SIGKILL_DELAY_MS
              /\ i.exit[1].signal = <<"SIGKILL">>
    /\ i.closed # << >> =>
          \A k \in SentSignals(i) : i.signals[k].at <= i.closed[1].at

\* C24: SIGKILL reaches the child only if it has not ended SIGKILL_DELAY_MS
\* after the kill timer fired; once the child has closed no signal reaches it
\* and no escalation timer of the invocation is pending.
C24_NoTimerAfterClose ==
    \A p \in PIds :
        (Cli(p) /\ procs[p].spawned) =>
            /\ SignalsAsClaimed(procs[p])
            /\ procs[p].closed # << >> =>
                  \A j \in 1..Len(procs[p].sigkillTimer) :
                      procs[p].sigkillTimer[j].fired

\* the part of C24 about signals
SignalsOnlyWhileRunning ==
    \A p \in PIds : (Cli(p) /\ procs[p].spawned) => SignalsAsClaimed(procs[p])

\* the invocation has neither timed out nor signalled its child, and its kill
\* timer is cancelled
TimerCancelled(i) ==
    /\ i.killTimer = "cleared"
    /\ ~i.timedOut
    /\ i.signals = << >>
    /\ i.sigkillTimer = << >>

\* C25: an invocation whose child closed before timeoutMs had passed since the
\* spawn, or whose spawn failed, has its kill timer cancelled from the 'close'
\* or 'error' event on: timedOut is false and no signal was sent or is
\* scheduled, however much time passes.
C25_TimerCancelledOnClose ==
    \A p \in PIds :
        Cli(p) =>
            LET i == procs[p] IN
            /\ (i.closed # << >> /\ i.closed[1].at < i.spawnedAt + i.timeoutMs)
                  => TimerCancelled(i)
            /\ (~i.spawned /\ i.child \in {"errored", "closed"})
                  => TimerCancelled(i)

\* C25 witness: the child closed before its timeout, and the time at which
\* the kill timer was due has passed.
C25_Witness ==
    \E p \in PIds :
        /\ Cli(p)
        /\ procs[p].spawned
        /\ procs[p].closed # << >>
        /\ procs[p].closed[1].at < procs[p].spawnedAt + procs[p].timeoutMs
        /\ now > procs[p].spawnedAt + procs[p].timeoutMs
        /\ procs[p].killTimer = "cleared"

(***************************************************************************)
(* More properties of the sliding-window counter, checked under SpecRate.  *)
(***************************************************************************)

\* C26: the rateLimit(key) calls allowed within any WINDOW_MS are at most
\* 2 * MAX, whatever the timing of calls and sweeps.  rlAllowed holds, after
\* each call for WatchedKey, the allowed calls of the WINDOW_MS up to it.
C26_AtMostTwiceMaxPerWindow ==
    /\ Len(rlAllowed) <= 2 * RATE_LIMIT_MAX_REQUESTS
    /\ \A i \in 1..Len(rlAllowed) :
          rlAllowed[Len(rlAllowed)] - rlAllowed[i] <= RATE_LIMIT_WINDOW_MS

\* C26 witness: 2 * MAX - 1 calls were allowed within WINDOW_MS, across the
\* boundary of two windows.
C26_Witness ==
    /\ Len(rlAllowed) = 2 * RATE_LIMIT_MAX_REQUESTS - 1
    /\ rateLimitStore[WatchedKey].count = RATE_LIMIT_MAX_REQUESTS

\* the allowed calls of the window that the record of WatchedKey counts
AllowedInWindow ==
    Cardinality({i \in 1..Len(rlAllowed) :
                    rlAllowed[i] >= rateLimitStore[WatchedKey].windowStart})

\* the index of the failure of Watched that opened the latest window, 0 if
\* the history no longer holds it
LastFresh ==
    LET S == {i \in 1..Len(cfLog) : cfLog[i].fresh}
    IN IF S = {} THEN 0 ELSE CHOOSE i \in S : \A j \in S : j <= i

\* C27: no increment is lost.  After N rateLimit calls for a key within one
\* window opened from no record, the record counts min(N, MAX) and
\* min(N, MAX) of the calls were allowed; after N recordCredentialFailure
\* calls for an identity within one window, the record holds failures = N.
\* The calls are interleaved with each other, with the other store's calls
\* and with both sweeps in every order.
C27_NoIncrementLost ==
    /\ WatchedKey \in DOMAIN rateLimitStore =>
          /\ rateLimitStore[WatchedKey].count
                = Min(rlSeen[WatchedKey], RATE_LIMIT_MAX_REQUESTS)
          /\ AllowedInWindow = Min(rlSeen[WatchedKey], RATE_LIMIT_MAX_REQUESTS)
    /\ (Watched \in DOMAIN credentialThrottleStore /\ LastFresh > 0) =>
          credentialThrottleStore[Watched].failures = Len(cfLog) - LastFresh + 1

\* more than MAX calls were made in one window and five failures recorded
\* in one window
C27_Witness ==
    /\ WatchedKey \in DOMAIN rateLimitStore
    /\ rlSeen[WatchedKey] = RATE_LIMIT_MAX_REQUESTS + 1
    /\ rateLimitStore[WatchedKey].count = RATE_LIMIT_MAX_REQUESTS
    /\ Watched \in DOMAIN credentialThrottleStore
    /\ LastFresh = 1
    /\ Len(cfLog) = CREDENTIAL_MAX_FAILURES
    /\ credentialThrottleStore[Watched].failures = CREDENTIAL_MAX_FAILURES

\* C28: the sweeps are unobservable.  rlShadow and credShadow hold the
\* stores of the same run of calls in which no sweep ever ran; every
\* rateLimit and getCredentialThrottle call so far has returned the value
\* the same call returned there.
C28_SweepsUnobservable == rlShadow.agree /\ credShadow.agree

\* a rateLimit call found no record where the run without sweeps had one,
\* and the credential sweep has removed a record that run still holds
C28_Witness ==
    /\ Len(rlLast) = 1
    /\ ~rlLast[1].hadRecord
    /\ rlLast[1].shadowHad
    /\ Watched \in DOMAIN credShadow.store
    /\ Watched \notin DOMAIN credentialThrottleStore

\* C30: every record of the rate-limit store has 1 <= count <= MAX, and
\* every record of the credential store has failures >= 1.
C30_RecordCountsInRange ==
    /\ \A k \in DOMAIN rateLimitStore :
          /\ 1 <= rateLimitStore[k].count
          /\ rateLimitStore[k].count <= RATE_LIMIT_MAX_REQUESTS
    /\ \A k \in DOMAIN credentialThrottleStore :
          credentialThrottleStore[k].failures >= 1

\* a full rate-limit record that has just denied a call, beside a credential
\* record that failures recorded after the block have taken past the maximum
C30_Witness ==
    /\ WatchedKey \in DOMAIN rateLimitStore
    /\ rateLimitStore[WatchedKey].count = RATE_LIMIT_MAX_REQUESTS
    /\ Len(rlLast) = 1
    /\ ~rlLast[1].result.allowed
    /\ Watched \in DOMAIN credentialThrottleStore
    /\ credentialThrottleStore[Watched].failures > CREDENTIAL_MAX_FAILURES

\* how many times a command was spawned for request r
SpawnCount(r, cmd) ==
    Cardinality({i \in 1..Len(flash[r].spawns) : flash[r].spawns[i] = cmd})

\* C29: a flash is never re-attempted: for every request the version probe,
\* compile and upload are each spawned at most once, in that order, and
\* nothing is spawned for a request that was refused with a 400.
C29_EachPhaseSpawnedOnce ==
    \A r \in FlashIds :
        /\ \A cmd \in {"version", "compile", "upload"} : SpawnCount(r, cmd) <= 1
        /\ flash[r].spawns \in {<< >>, <<"version">>, <<"version", "compile">>,
                                <<"version", "compile", "upload">>}
        /\ (flash[r].pc = "responded" /\ flash[r].response.status = 400)
              => flash[r].spawns = << >>

\* a request whose upload failed has been answered with all three commands
\* spawned once
C29_Witness ==
    \E r \in FlashIds :
        /\ flash[r].pc = "responded"
        /\ flash[r].response.status = 500
        /\ flash[r].spawns = <<"version", "compile", "upload">>
        /\ procs[<<r, "upload">>].settled # << >>
        /\ ~procs[<<r, "upload">>].settled[1].ok

\* C31: a denied rateLimit call reports the least whole number of seconds
\* that is not less than WINDOW_MS minus the time elapsed since the record's
\* windowStart; an allowed call reports remaining = MAX minus the count the
\* record holds after the call.
C31_ReportedValues ==
    \A i \in 1..Len(rlLast) :
        LET c == rlLast[i]
            left == RATE_LIMIT_WINDOW_MS - (c.at - c.post.windowStart)
        IN IF c.result.allowed
           THEN c.result.remaining = RATE_LIMIT_MAX_REQUESTS - c.post.count
           ELSE /\ c.result.retryAfter * 1000 >= left
                /\ (c.result.retryAfter - 1) * 1000 < left

\* a call denied one millisecond into the window, after the call that was
\* allowed with nothing remaining
C31_Witness ==
    /\ Len(rlLast) = 1
    /\ ~rlLast[1].result.allowed
    /\ rlLast[1].at - rlLast[1].post.windowStart = 1
    /\ rlLast[1].result.retryAfter = 900
    /\ rlLast[1].post.count = RATE_LIMIT_MAX_REQUESTS

\* C36: a rateLimit(key) call that is denied leaves the whole store as it
\* was, and every rateLimit(key) call leaves the records of all other keys
\* as they were: no other key gains, loses or changes a record.
C36_DenialAndOtherKeysUntouched ==
    [][\A key \in RateKeys :
          RateLimitCall(key) =>
              /\ \A k \in RateKeys \ {key} :
                    /\ (k \in DOMAIN rateLimitStore') = (k \in DOMAIN rateLimitStore)
                    /\ k \in DOMAIN rateLimitStore
                          => rateLimitStore'[k] = rateLimitStore[k]
              /\ ~rlLast'[1].result.allowed => rateLimitStore' = rateLimitStore]_vars

\* login:ip1 has just been denied, later than its window began, while
\* register:ip1 still holds a record with a single call
C36_Witness ==
    /\ Len(rlLast) = 1
    /\ rlLast[1].key = RateKey("login", "ip1")
    /\ ~rlLast[1].result.allowed
    /\ rlLast[1].at > rateLimitStore[RateKey("login", "ip1")].windowStart
    /\ RateKey("register", "ip1") \in DOMAIN rateLimitStore
    /\ rateLimitStore[RateKey("register", "ip1")].count = 1

\* C35: in the in-memory store no two users registered under different
\* emails share an id, and for every token a registration has answered with,
\* every user GET /api/me can find under the token's id has the token's email.
C35_InMemoryIdsDistinct ==
    /\ \A e1, e2 \in DOMAIN inMemoryUsers :
          e1 # e2 => inMemoryUsers[e1].id # inMemoryUsers[e2].id
    /\ \A r \in ReqIds :
          (/\ reqs[r].pc = "responded"
           /\ reqs[r].response.status = 200
           /\ reqs[r].response.token.id[1] = "user_")
              => \A u \in meCandidates(reqs[r].response.token.id) :
                    u.email = reqs[r].response.token.email

(***************************************************************************)
(* Properties of concurrent logins, checked under SpecLoginPair.           *)
(***************************************************************************)

\* the requests that passed the throttle check for the email within the
\* window of its live failure record and now await the comparison of a wrong
\* password
ComparingWrong(email) ==
    {r \in ReqIds :
        /\ reqs[r].pc = "compare"
        /\ reqs[r].email = email
        /\ ~Compare(reqs[r].password, reqs[r].user.password_hash)
        /\ reqs[r].startedAt >= credentialThrottleStore[email].firstFailure}

\* C33: for a registered identity, the wrong-password attempts that reached
\* the password comparison within the window of the live failure record (the
\* failures it has recorded and the comparisons still in progress) never
\* number more than CREDENTIAL_MAX_FAILURES.
C33_AtMostMaxComparisons ==
    (Watched \in DOMAIN inMemoryUsers /\ CredLive(credentialThrottleStore, Watched, now))
        => credentialThrottleStore[Watched].failures
              + Cardinality(ComparingWrong(Watched)) <= CREDENTIAL_MAX_FAILURES

\* the password is the one the in-memory user of the email registered with
CorrectPassword(email, password) ==
    /\ email \in DOMAIN inMemoryUsers
    /\ Compare(password, inMemoryUsers[email].password_hash)

\* a login with the correct password that arrives while the throttle blocks
\* its email is answered 429 in the same step, with no password comparison,
\* and leaves the failure record as it was
BlockedLoginRejected ==
    \A r \in ReqIds, email \in PairEmailInputs,
       password \in LoginPasswordInputs, ip \in Ips :
        ( /\ LoginStart(r, email, password, ip)
          /\ ValidLoginBody(email, password)
          /\ CredBlocked(normalizedEmail(email.v))
          /\ CorrectPassword(normalizedEmail(email.v), password.v) )
            => /\ reqs'[r].pc = "responded"
               /\ reqs'[r].response.status = 429
               /\ ~reqs'[r].response.compared
               /\ credentialThrottleStore' = credentialThrottleStore

\* the step ends within the window of the record that blocks the watched
\* identity
StillInWindow ==
    /\ CredBlocked(Watched)
    /\ now' - credentialThrottleStore[Watched].firstFailure <= CREDENTIAL_WINDOW_MS

\* the identity is still blocked after the step, by the same record
BlockKept ==
    /\ CredBlocked(Watched)'
    /\ credentialThrottleStore'[Watched].firstFailure
          = credentialThrottleStore[Watched].firstFailure

\* a login that passed the throttle check before the identity was blocked
\* completes with the correct password and resets the record
EarlierLoginSucceeds ==
    \E r \in ReqIds :
        /\ LoginCompare(r)
        /\ reqs[r].email = Watched
        /\ Compare(reqs[r].password, reqs[r].user.password_hash)

ValidRegisterBody(email, password) ==
    /\ ValidLoginBody(email, password)
    /\ isValidPassword(password.v)

\* the request in slot r has been answered 400 and no store has changed
Rejected400(r) ==
    /\ reqs'[r].pc = "responded"
    /\ reqs'[r].response.status = 400
    /\ rateLimitStore' = rateLimitStore
    /\ credentialThrottleStore' = credentialThrottleStore
    /\ inMemoryUsers' = inMemoryUsers
    /\ mongoUsers' = mongoUsers

\* C37: a register or login request whose body fails an input check (a
\* missing field, a wrong type, an invalid email, for register a weak
\* password) is answered 400 and leaves the rate-limit store, the
\* credential-throttle store and the user stores as they were; every request
\* whose body passes the checks is counted against its IP.
C37_BadInputChangesNothing ==
    [][\A r \in SeqReqIds, email \in BodyEmailInputs,
          password \in BodyPasswordInputs, ip \in Ips :
          /\ RegisterStart(r, email, password, ip) =>
                IF ValidRegisterBody(email, password)
                THEN /\ reqs'[r].pc = "responded" => reqs'[r].response.status # 400
                     /\ rateLimitStore'
                           = rateLimit(rateLimitStore, RateKey("register", ip), now).store
                ELSE Rejected400(r)
          /\ LoginStart(r, email, password, ip) =>
                IF ValidLoginBody(email, password)
                THEN /\ reqs'[r].pc = "responded" => reqs'[r].response.status # 400
                     /\ rateLimitStore'
                           = rateLimit(rateLimitStore, RateKey("login", ip), now).store
                ELSE Rejected400(r)]_vars

\* a request has been answered 400 while the rate-limit store, the throttle
\* store and the user store all hold records
C37_Witness ==
    \E r \in SeqReqIds :
        /\ reqs[r].pc = "responded"
        /\ reqs[r].response.status = 400
        /\ reqs[r].response.error = "Invalid email format"
        /\ rateLimitStore # EmptyMap
        /\ credentialThrottleStore # EmptyMap
        /\ inMemoryUsers # EmptyMap

(***************************************************************************)
(* Properties of concurrent flash requests, checked under SpecFlashPair.   *)
(***************************************************************************)

\* C32: no request waits for another request: whatever the other request is
\* doing, a request that is in its probe, compile or upload phase has its own
\* process of that phase, spawned at the step that entered the phase, with
\* the port of its own body among the upload arguments.
C32_NoRequestWaits ==
    \A r \in FlashIds :
        flash[r].pc \in Args =>
            /\ procs[<<r, flash[r].pc>>].child # "none"
            /\ flash[r].args[1] = flash[r].pc
            /\ flash[r].pc = "upload" =>
                  /\ procs[<<r, "compile">>].settled # << >>
                  /\ flash[r].args[4] = flash[r].port

\* C32 witness: two requests that name the same port both have their upload
\* process running.
C32_Witness ==
    /\ flash["f1"].pc = "upload"
    /\ flash["f2"].pc = "upload"
    /\ flash["f1"].port = flash["f2"].port
    /\ procs[<<"f1", "upload">>].child = "running"
    /\ procs[<<"f2", "upload">>].child = "running"

\* an 'error' or 'close' event of the invocation has been delivered
EventDelivered(p) == procs[p].child \in {"errored", "closed"}

\* C39: every spawnCliAndStream invocation is settled exactly when the first
\* of its 'error' and 'close' events has been delivered; once it is settled
\* no later event and no timer changes the outcome; and a chunk that arrives
\* for one invocation changes nothing of any other invocation.
C39_SettlesOnce ==
    [][/\ \A p \in PIds :
             Cli(p) => /\ (procs[p].settled # << >>) = EventDelivered(p)
                       /\ procs[p].settled # << >>
                             => procs'[p].settled = procs[p].settled
       /\ \A p \in PIds, chunk \in FlashChunkInputs :
             ChildData(p, chunk) => \A q \in PIds \ {p} : procs'[q] = procs[q]]_vars

\* C39 witness: the compile of one request could not be spawned, was rejected
\* by its 'error' event and has since been closed, while the compile of the
\* other request is running and has captured a chunk.
C39_Witness ==
    \E r \in FlashIds, o \in FlashIds :
        /\ r # o
        /\ Cli(<<r, "compile">>)
        /\ ~procs[<<r, "compile">>].spawned
        /\ procs[<<r, "compile">>].child = "closed"
        /\ procs[<<r, "compile">>].settled # << >>
        /\ Cli(<<o, "compile">>)
        /\ procs[<<o, "compile">>].child = "running"
        /\ procs[<<o, "compile">>].output # << >>

\* the bodies of the failure responses of POST /api/flash
FlashFailureBodies ==
    {[status |-> 400, error |-> e] :
        e \in {"Missing sketchPath or port", "Invalid serial port identifier",
               "Invalid FQBN value", "Invalid sketch path",
               "Sketch path must stay within project workspace",
               "Unsupported sketch file extension",
               "Sketch path must point to a file", "Sketch file not found"}}
    \cup {[status |-> 500, error |-> e] :
             e \in {"arduino-cli not available on PATH", TimeoutMessage, GenericMessage}}

\* the kill timer of the rejected compile or upload of the request had fired
RejectedTimedOut(r) ==
    \E a \in {"compile", "upload"} :
        /\ Failing(r, a)
        /\ "timedOut" \in DOMAIN procs[<<r, a>>].settled[1]
        /\ procs[<<r, a>>].settled[1].timedOut

\* C38: every failure response of POST /api/flash is one of a fixed set of
\* bodies, and which one is decided without the captured output: a 400 is
\* sent before any process exists, and a 500 is the tool-unavailable body if
\* the probe failed, the timeout body if the kill timer of the rejected
\* invocation had fired, and the generic body otherwise.
C38_FailureBodiesFixed ==
    \A r \in FlashIds :
        (flash[r].pc = "responded" /\ flash[r].response.status # 200) =>
            /\ flash[r].response \in FlashFailureBodies
            /\ flash[r].response.status = 400 => flash[r].spawns = << >>
            /\ flash[r].response.status = 500 =>
                  flash[r].response =
                      IF ProbeFailed(r) THEN ToolUnavailable
                      ELSE [status |-> 500,
                            error |-> IF RejectedTimedOut(r)
                                      THEN TimeoutMessage ELSE GenericMessage]

\* C38 witness: a request whose compile wrote output and then failed has
\* been answered with the generic body.
C38_Witness ==
    \E r \in FlashIds :
        /\ flash[r].pc = "responded"
        /\ flash[r].response = [status |-> 500, error |-> GenericMessage]
        /\ Failing(r, "compile")
        /\ "cliOutput" \in DOMAIN procs[<<r, "compile">>].settled[1]
        /\ procs[<<r, "compile">>].settled[1].cliOutput # << >>

====
